---- MODULE Spec2Model ----
(***************************************************************************)
(* Streaming pipeline of purr-core: the producer (AudioProcessor::         *)
(* stream_audio / stream_audio_sync) decodes a file and publishes          *)
(* AudioChunks on an unbounded channel; the consumer (StreamWhisper-       *)
(* Transcriber::transcribe / process_audio_stream) runs inference on each  *)
(* chunk and republishes StreamingChunks to the caller.  In batch mode     *)
(* AudioProcessor::load_audio / load_audio_sync decodes the whole file     *)
(* into one sample buffer.                                                 *)
(*                                                                         *)
(* A Vec<f32> of normalized samples is written as a sequence of runs       *)
(* [from, len]: the samples at positions from .. from+len-1 of the         *)
(* normalized stream, adjacent runs merged, so that two sample vectors are *)
(* equal exactly when they hold the same samples in the same order.        *)
(***************************************************************************)
EXTENDS Integers, Sequences, FiniteSets, TLC

\* Bounds of the explored inputs.
MaxPackets == 2
MaxFrames == 2

\* Sample counts one decoded frame may contribute after normalization.
FrameSizes == {0, 80000, 160000, 400000}

\* AudioChunk::TARGET_SAMPLES = (10.0 * 16000.0) as usize
TARGET_SAMPLES == 160000

\* The rate of the normalized stream.
SAMPLE_RATE == 16000

VARIABLES
    mode,                    \* the entry point in use: "streaming" or "batch"
    path_exists,             \* the path given names an existing file
    flush_result,            \* what decoder.send_eof() returned, or "none"
    batch_pc,                \* position of load_audio / load_audio_sync
    samples,                 \* load_audio_sync: samples
    batch_result,            \* what load_audio returned, or NoResult
    producer_pc,             \* position of the spawn_blocking producer
    packets_left,            \* packets the demuxer may still yield
    frames_left,             \* frames the decoder may still yield
    chunk_samples,           \* stream_audio_sync: chunk_samples
    chunk_index,             \* stream_audio_sync: chunk_index
    total_samples_processed, \* stream_audio_sync: total_samples_processed
    normalized,              \* number of normalized samples produced so far
    failure,                 \* the fatal failure the producer met, or "none"
    send_failed,             \* a publish of the producer met a closed channel
    chunk_chan,              \* messages in flight on the chunk channel
    rx_alive,                \* the AudioStream (receiver) is not dropped
    emitted,                 \* every message the producer published
    consumer_pc,             \* position of the tokio::spawn consumer
    audio_chunk,             \* the chunk the consumer is running inference on
    total_audio_duration,    \* process_audio_stream: total_audio_duration (samples)
    infer_log,               \* inference calls started so far and their outcome
    out_chan,                \* messages in flight to the caller
    caller_alive,            \* the caller still holds the result stream
    sent,                    \* every message the consumer published
    out_send_failed,         \* a publish of a StreamingChunk met a closed channel
    delivered,               \* what the caller received, in order
    caller_ended,            \* the caller saw the end of the result stream
    rs_pc,                   \* position of the loop that hands frames on
    rs_caller,               \* who handles the frames: "batch" or "streaming"
    rs_left,                 \* frames the decoder may still yield
    resampler,               \* resampler: Option<Context>
    last_format,             \* last_format: Option<Sample>
    last_channel_layout,     \* last_channel_layout: Option<ChannelLayout>
    last_rate,               \* last_rate: Option<u32>
    live,                    \* resampler contexts constructed and not dropped
    rs_frame,                \* the frame processed last
    rs_path,                 \* the path it took: "resampler" or "direct"
    rs_constructed,          \* a context was constructed for it
    rs_outcome,              \* "ok", "get_failed" or "run_failed"
    rs_result,               \* what the function returned: "Ok" or "Err"
    rs_added,                \* samples it appended to the buffer
    last_resampled,          \* outcome of the last frame that needed resampling
    prev_key,                \* (format, layout, rate) of that frame
    key_runs,                \* maximal runs of one key among those frames
    constructions,           \* contexts constructed so far
    clean,                   \* no construction or conversion has failed so far
    dec_pc,                  \* position of the direct conversion of one frame
    dec_len,                 \* frame.samples() of that frame
    dec_rate,                \* frame.rate() of that frame
    dec_out,                 \* indices of the source samples it pushed
    st_pc,                   \* position of one call of TranscriptionStats::new
    st_in,                   \* its four arguments
    st_out,                  \* the TranscriptionStats it returned
    md_pc,                   \* position of one use of WhisperModel
    md_in,                   \* the model or the string it starts from
    md_out,                  \* what as_str, from_str and filename returned
    hk_pc,                   \* position of each thread in install_logging_hooks
    hk_calls,                \* calls each thread may still make
    hk_started,              \* the calls begun so far, by thread, in order
    hk_returned,             \* calls that have returned
    whisper_once,            \* WHISPER_LOG_TRAMPOLINE_INSTALL
    ggml_once,               \* GGML_LOG_TRAMPOLINE_INSTALL
    whisper_hook,            \* calls of whisper_log_set, by calling thread
    ggml_hook,               \* calls of ggml_log_set, by calling thread
    tr_pc,                   \* position of the transcription looked at
    tr_kind,                 \* "batch" or "streaming"
    tr_model_path,           \* config.model_path is Some
    tr_audio_exists,         \* the audio path names an existing file
    tr_stream,               \* streaming: every item the AudioStream yields
    tr_input,                \* streaming: the items not yet received
    tr_chunk,                \* streaming: audio_chunk
    tr_engine,               \* what the engine holds for each segment
    tr_i,                    \* the segment loop's i
    tr_text,                 \* chunk_text / full_text
    tr_segments,             \* batch: segments
    tr_totals,               \* streaming: the running totals
    tr_rx_alive,             \* streaming: the caller holds the result stream
    tr_out,                  \* streaming: every message sent to the caller
    tr_result,               \* batch: what transcribe_audio_file returned
    ru_pc,                   \* position of round_to_unit
    ru_type,                 \* the integer type round_to_unit is called on
    ru_build,                \* overflow checks of the build: on or off
    ru_value,                \* round_to_unit: self
    ru_base,                 \* round_to_unit: base
    ru_unit,                 \* round_to_unit: unit
    ru_overflowed,           \* a product unit * base left the type's range
    ru_result,               \* what round_to_unit returned
    nz_pc,                   \* both decodes: position in the frames
    nz_left,                 \* both decodes: frames the decoder may still yield
    nz_no,                   \* both decodes: number of frames decoded so far
    nz_batch,                \* load_audio_sync on these frames
    nz_stream,               \* stream_audio_sync on these frames
    dl_pc,                   \* position of each download_model_with_progress
    dl_file,                 \* each download: the file its handle is open on
    dl_downloaded,           \* each download: chunks written so far
    dl_names,                \* the models directory: path -> file, 0 if absent
    dl_files                 \* the content of each file ever created

vars == <<mode, path_exists, flush_result, batch_pc, samples, batch_result,
          producer_pc, packets_left, frames_left, chunk_samples, chunk_index,
          total_samples_processed, normalized, failure, send_failed,
          chunk_chan, rx_alive, emitted, consumer_pc, audio_chunk,
          total_audio_duration, infer_log, out_chan, caller_alive, sent,
          out_send_failed, delivered, caller_ended,
          rs_pc, rs_caller, rs_left, resampler, last_format,
          last_channel_layout, last_rate, live, rs_frame, rs_path,
          rs_constructed, rs_outcome, rs_result, rs_added, last_resampled,
          prev_key, key_runs, constructions, clean,
          dec_pc, dec_len, dec_rate, dec_out,
          st_pc, st_in, st_out, md_pc, md_in, md_out,
          hk_pc, hk_calls, hk_started, hk_returned, whisper_once, ggml_once,
          whisper_hook, ggml_hook,
          tr_pc, tr_kind, tr_model_path, tr_audio_exists, tr_stream, tr_input,
          tr_chunk, tr_engine, tr_i, tr_text, tr_segments, tr_totals,
          tr_rx_alive, tr_out, tr_result,
          ru_pc, ru_type, ru_build, ru_value, ru_base, ru_unit, ru_overflowed,
          ru_result,
          nz_pc, nz_left, nz_no, nz_batch, nz_stream,
          dl_pc, dl_file, dl_downloaded, dl_names, dl_files>>

producer_vars == <<producer_pc, packets_left, frames_left, chunk_samples,
                   chunk_index, total_samples_processed, normalized, failure,
                   send_failed, flush_result>>

consumer_vars == <<consumer_pc, audio_chunk, total_audio_duration, infer_log,
                   sent, out_send_failed>>

caller_vars == <<caller_alive, delivered, caller_ended>>

batch_vars == <<batch_pc, samples, batch_result>>

resampler_vars == <<rs_pc, rs_caller, rs_left, resampler, last_format,
                    last_channel_layout, last_rate, live, rs_frame, rs_path,
                    rs_constructed, rs_outcome, rs_result, rs_added,
                    last_resampled, prev_key, key_runs, constructions, clean>>

decimate_vars == <<dec_pc, dec_len, dec_rate, dec_out>>

stats_vars == <<st_pc, st_in, st_out>>

model_vars == <<md_pc, md_in, md_out>>

hooks_vars == <<hk_pc, hk_calls, hk_started, hk_returned, whisper_once,
                ggml_once, whisper_hook, ggml_hook>>

transcribe_vars == <<tr_pc, tr_kind, tr_model_path, tr_audio_exists,
                     tr_stream, tr_input, tr_chunk, tr_engine, tr_i, tr_text,
                     tr_segments, tr_totals, tr_rx_alive, tr_out, tr_result>>

round_vars == <<ru_pc, ru_type, ru_build, ru_value, ru_base, ru_unit,
                ru_overflowed, ru_result>>

normalize_vars == <<nz_pc, nz_left, nz_no, nz_batch, nz_stream>>

download_vars == <<dl_pc, dl_file, dl_downloaded, dl_names, dl_files>>

utility_vars == <<round_vars, normalize_vars, download_vars>>

\* What no step of a decode or of a frame changes.
other_vars == <<stats_vars, model_vars, hooks_vars, transcribe_vars,
                utility_vars>>

\* What no step of a decode changes.
static_vars == <<mode, path_exists, resampler_vars, decimate_vars, other_vars>>

\* What no step of the streaming pipeline changes.
offline_vars == <<static_vars, batch_vars>>

pipeline_vars == <<producer_vars, chunk_chan, rx_alive, emitted, consumer_vars,
                   out_chan, caller_vars, mode, path_exists, batch_vars>>

----------------------------------------------------------------------------
\* Sample vectors.

RECURSIVE VecLen(_)
VecLen(v) == IF v = <<>> THEN 0 ELSE Head(v).len + VecLen(Tail(v))

\* The n samples at positions from .. from+n-1.
Samples(from, n) == IF n = 0 THEN <<>> ELSE <<[from |-> from, len |-> n]>>

\* Vec::extend_from_slice
Extend(v, w) ==
    IF w = <<>> THEN v
    ELSE IF v = <<>> THEN w
    ELSE LET l == v[Len(v)]
             h == Head(w)
         IN  IF l.from + l.len = h.from
             THEN SubSeq(v, 1, Len(v) - 1)
                    \o <<[from |-> l.from, len |-> l.len + h.len]>>
                    \o Tail(w)
             ELSE v \o w

\* chunk_samples.drain(..n).collect(): the first n samples.
RECURSIVE Drain(_, _)
Drain(v, n) ==
    IF n = 0 \/ v = <<>> THEN <<>>
    ELSE LET h == Head(v)
         IN  IF h.len <= n
             THEN Extend(<<h>>, Drain(Tail(v), n - h.len))
             ELSE <<[from |-> h.from, len |-> n]>>

\* What drain(..n) leaves in the vector.
RECURSIVE AfterDrain(_, _)
AfterDrain(v, n) ==
    IF n = 0 \/ v = <<>> THEN v
    ELSE LET h == Head(v)
         IN  IF h.len <= n
             THEN AfterDrain(Tail(v), n - h.len)
             ELSE <<[from |-> h.from + n, len |-> h.len - n]>> \o Tail(v)

\* let chunk_data = chunk_samples.drain(..TARGET_SAMPLES).collect::<Vec<f32>>()
ChunkDataWholeBuffer(v) == v

ChunkData(v) == Drain(v, TARGET_SAMPLES)

----------------------------------------------------------------------------
\* Messages.

\* let start_time = total_samples_processed as f32 / 16000.0, in seconds.
\* total_samples_processed is a multiple of 160000, so the quotient is a whole
\* number, and the f32 arithmetic is exact up to 26843 chunks.
StartTimeAfterAdvance(total) == (total + TARGET_SAMPLES) \div SAMPLE_RATE

StartTime(total) == total \div SAMPLE_RATE

\* let duration = samples.len() as f32 / 16000.0, in seconds; the lengths
\* modelled are multiples of 16000, so the quotient is a whole number.
Duration(v) == VecLen(v) \div SAMPLE_RATE

\* AudioChunk::new(samples, index, start_time, is_final), sent as Ok(chunk)
AudioChunk(chunk, index, total, is_final) ==
    [tag |-> "Ok", samples |-> chunk, index |-> index,
     duration |-> Duration(chunk),
     start_time |-> StartTime(total), is_final |-> is_final]

\* Err(WhisperError) on either channel
ErrMsg(kind) == [tag |-> "Err", kind |-> kind]

\* The WhisperError variant each failure is reported with.
ErrorVariant(kind) ==
    CASE kind \in {"file_not_found", "no_audio_stream", "no_audio_data"}
           -> "AudioProcessing"
      [] kind \in {"ffmpeg_init", "open_input", "decoder_context",
                   "audio_decoder", "send_packet", "create_resampler"}
           -> "FFmpeg"
      [] kind \in {"create_state", "full", "n_segments", "segment_t0",
                   "segment_t1"}
           -> "Transcription"
      [] kind \in {"unknown_model", "xdg_dirs", "no_model"} -> "Configuration"
      [] kind = "load_model" -> "Whisper"
      [] kind = "model_task_join" -> "Unknown"

\* chunk_index += 1
NextChunkIndexStuck(i) == i

NextChunkIndex(i) == i + 1

\* mpsc::UnboundedSender::send: fails exactly when the receiver is gone.
SendOk(alive) == alive

\* let final_stats = if audio_chunk.is_final { Some(..) } else { None }
FinalStatsAlways(chunk) == "Some"

FinalStats(chunk) == IF chunk.is_final THEN "Some" ELSE "None"

\* chunk_index: audio_chunk.index
StreamingIndexZero(chunk) == 0

StreamingIndex(chunk) == chunk.index

\* let streaming_chunk = StreamingChunk { .. }
StreamingChunk(chunk) ==
    [tag |-> "Ok", chunk_index |-> StreamingIndex(chunk),
     is_final |-> chunk.is_final, start |-> chunk.start_time,
     end |-> chunk.start_time + chunk.duration,
     final_stats |-> FinalStats(chunk)]

NoChunk == [tag |-> "None"]

----------------------------------------------------------------------------
\* One decoded frame: process_audio_frame and process_audio_frame_to_buffer.

None == <<>>

Some(v) == <<v>>

\* frame.format(): the sample format and whether it is packed or planar.
Formats == {"I16_Packed", "F32_Planar", "I32_Planar"}

\* ffmpeg::format::Sample::I16(_) | ffmpeg::format::Sample::F32(_) | _
SampleKind(format) ==
    CASE format \in {"I16_Packed", "I16_Planar"} -> "I16"
      [] format \in {"F32_Packed", "F32_Planar"} -> "F32"
      [] OTHER -> "other"

\* frame.channels() and frame.channel_layout(); "NONE" is a layout of 0 channels.
ChannelSetups ==
    { <<1, "NONE">>, <<2, "NONE">>, <<2, "STEREO">>, <<3, "NONE">> }

\* frame.rate()
FrameRates == {16000, 32000}

\* frame.samples()
MaxFrameSamples == 3

\* sample counts the resampler may hand back for one frame
ResampledCounts == {0, 2}

Frames ==
    { [format |-> fmt, channels |-> cs[1], channel_layout |-> cs[2],
       rate |-> r, samples |-> MaxFrameSamples] :
        fmt \in Formats, cs \in ChannelSetups, r \in FrameRates }

NoFrame ==
    [format |-> "none", channels |-> 0, channel_layout |-> "NONE",
     rate |-> 0, samples |-> 0]

\* ffmpeg::channel_layout::ChannelLayout::default(frame.channels() as i32)
DefaultLayout(channels) == <<"DEFAULT", channels>>

\* let current_channel_layout = if frame.channel_layout().channels() == 0 { .. }
EffectiveLayout(f) ==
    IF f.channel_layout = "NONE"
    THEN CASE f.channels = 1 -> <<"MONO", 1>>
           [] f.channels = 2 -> <<"STEREO", 2>>
           [] OTHER -> DefaultLayout(f.channels)
    ELSE <<f.channel_layout, f.channels>>

\* let resampler_needs_update = ..
ResamplerNeedsUpdateIgnoresRate(f) ==
    \/ last_format # Some(f.format)
    \/ last_channel_layout # Some(EffectiveLayout(f))

ResamplerNeedsUpdate(f) ==
    \/ last_format # Some(f.format)
    \/ last_channel_layout # Some(EffectiveLayout(f))
    \/ last_rate # Some(f.rate)

\* let is_direct_convertible = matches!(..) && frame.channels() == 1
IsDirectConvertible(f) ==
    SampleKind(f.format) \in {"I16", "F32"} /\ f.channels = 1

\* let needs_resampling = !is_direct_convertible
NeedsResamplingOffTargetRate(f) ==
    ~IsDirectConvertible(f) \/ f.rate # SAMPLE_RATE

NeedsResampling(f) == ~IsDirectConvertible(f)

\* Context::get(current_format, current_channel_layout, current_rate, ..)
Context(f) ==
    [format |-> f.format, channel_layout |-> EffectiveLayout(f),
     rate |-> f.rate]

\* Err(e) of resampler_ctx.run: *resampler = None
ContextKeptAfterRunError(ctx) == ctx

ContextAfterRunError(ctx) == None

\* Err(e) of resampler_ctx.run: return Ok(())
ResultAfterRunErrorIsErr == "Err"

ResultAfterRunError == "Ok"

\* let idx = pos as usize, with pos held times 16000
DirectIndexRounded(pos) == (pos + SAMPLE_RATE \div 2) \div SAMPLE_RATE

DirectIndex(pos) == pos \div SAMPLE_RATE

\* let step = current_rate as f32 / 16000.0; while (pos as usize) < slice.len()
\* { push slice[idx]; pos += step }.  pos is held times 16000, so that it is
\* an integer: a step that is a multiple of 1/2 is added exactly in f32.
RECURSIVE Downsample(_, _, _, _)
Downsample(pos, len, rate, out) ==
    IF DirectIndex(pos) < len
    THEN Downsample(pos + rate, len, rate, Append(out, DirectIndex(pos)))
    ELSE out

\* if current_rate == 16000 { every sample } else { downsample }
DirectConvert(len, rate) ==
    IF rate = SAMPLE_RATE
    THEN [i \in 1..len |-> i - 1]
    ELSE Downsample(0, len, rate, <<>>)

\* The body of process_audio_frame / process_audio_frame_to_buffer for frame f;
\* get_ok and run_ok are what Context::get and resampler_ctx.run return, n the
\* number of samples the resampler hands back.
ProcessAudioFrame(f, get_ok, run_ok, n) ==
    IF NeedsResampling(f)
    THEN LET construct == ResamplerNeedsUpdate(f) \/ resampler = None
         IN  /\ rs_path' = "resampler"
             /\ IF construct /\ ~get_ok
                THEN /\ rs_result' = "Err"
                     /\ rs_outcome' = "get_failed"
                     /\ rs_constructed' = FALSE
                     /\ rs_added' = 0
                     /\ UNCHANGED <<resampler, last_format,
                                    last_channel_layout, last_rate, live>>
                ELSE LET ctx == IF construct THEN Some(Context(f))
                                             ELSE resampler
                         fmt == IF construct THEN Some(f.format)
                                             ELSE last_format
                         lay == IF construct THEN Some(EffectiveLayout(f))
                                             ELSE last_channel_layout
                         rate == IF construct THEN Some(f.rate) ELSE last_rate
                         held == live - Len(resampler) + Len(ctx)
                     IN  /\ rs_constructed' = construct
                         /\ IF run_ok
                            THEN /\ resampler' = ctx
                                 /\ last_format' = fmt
                                 /\ last_channel_layout' = lay
                                 /\ last_rate' = rate
                                 /\ live' = held
                                 /\ rs_outcome' = "ok"
                                 /\ rs_result' = "Ok"
                                 /\ rs_added' = n
                            ELSE /\ resampler' = ContextAfterRunError(ctx)
                                 /\ last_format' = None
                                 /\ last_channel_layout' = None
                                 /\ last_rate' = None
                                 /\ live' = held - Len(ctx) + Len(resampler')
                                 /\ rs_outcome' = "run_failed"
                                 /\ rs_result' = ResultAfterRunError
                                 /\ rs_added' = 0
    ELSE /\ rs_path' = "direct"
         /\ rs_constructed' = FALSE
         /\ rs_outcome' = "ok"
         /\ rs_result' = "Ok"
         /\ rs_added' = Len(DirectConvert(f.samples, f.rate))
         /\ UNCHANGED <<resampler, last_format, last_channel_layout,
                        last_rate, live>>

\* What the frames seen so far are, kept for the properties.
ObserveFrame(f) ==
    /\ rs_frame' = f
    /\ IF rs_path' = "resampler"
       THEN /\ last_resampled' = rs_outcome'
            /\ prev_key' = Some(Context(f))
            /\ key_runs' = IF prev_key = Some(Context(f)) THEN key_runs
                                                           ELSE key_runs + 1
            /\ clean' = (clean /\ rs_outcome' = "ok")
       ELSE UNCHANGED <<last_resampled, prev_key, key_runs, clean>>
    /\ constructions' = IF rs_constructed' THEN constructions + 1
                                            ELSE constructions

\* frames a decode hands to the frame function
MaxDecodedFrames == 3

\* while decoder.receive_frame(&mut frame).is_ok() { .. }: the frame function
\* on the next frame, and what its caller does with an Err.
DecodedFrame(on_err) ==
    /\ rs_pc = "frames"
    /\ rs_left > 0
    /\ rs_left' = rs_left - 1
    /\ \E f \in Frames, get_ok \in BOOLEAN, run_ok \in BOOLEAN,
          n \in ResampledCounts :
         /\ ProcessAudioFrame(f, get_ok, run_ok, n)
         /\ ObserveFrame(f)
    /\ rs_pc' = IF rs_result' = "Err" THEN on_err ELSE "frames"
    /\ UNCHANGED <<rs_caller, pipeline_vars, decimate_vars, other_vars>>

\* Self::process_audio_frame(..)?: an Err ends load_audio_sync.
BatchDecodedFrame ==
    /\ rs_caller = "batch"
    /\ DecodedFrame("aborted")

\* if let Err(e) = Self::process_audio_frame_to_buffer(..) { warn!; continue }
StreamDecodedFrame ==
    /\ rs_caller = "streaming"
    /\ DecodedFrame("frames")

ResamplerIdle ==
    /\ rs_pc = "idle"
    /\ rs_caller = "none"
    /\ rs_left = 0
    /\ resampler = None
    /\ last_format = None
    /\ last_channel_layout = None
    /\ last_rate = None
    /\ live = 0
    /\ rs_frame = NoFrame
    /\ rs_path = "none"
    /\ rs_constructed = FALSE
    /\ rs_outcome = "none"
    /\ rs_result = "none"
    /\ rs_added = 0
    /\ last_resampled = "none"
    /\ prev_key = None
    /\ key_runs = 0
    /\ constructions = 0
    /\ clean = TRUE

\* frame.samples() of the frames converted directly
MaxFrameLen == 15

FrameLens == 0..MaxFrameLen \cup {100, 101}

\* frame.rate() of the frames converted directly
DirectRates == {16000, 24000, 32000, 48000, 64000}

\* The direct conversion of one mono I16 or F32 frame.
DirectConversion ==
    /\ dec_pc = "start"
    /\ dec_out' = DirectConvert(dec_len, dec_rate)
    /\ dec_pc' = "done"
    /\ UNCHANGED <<dec_len, dec_rate, pipeline_vars, resampler_vars,
                   other_vars>>

DecimateIdle ==
    /\ dec_pc = "idle"
    /\ dec_len = 0
    /\ dec_rate = 0
    /\ dec_out = <<>>

----------------------------------------------------------------------------
\* TranscriptionStats (whisper/mod.rs)

RECURSIVE GCD(_, _)
GCD(a, b) == IF b = 0 THEN a ELSE GCD(b, a % b)

Abs(x) == IF x < 0 THEN -x ELSE x

\* The value of the floating-point division a / b as a fraction in lowest
\* terms; a division by 0.0 gives an infinity, and 0.0 / 0.0 gives NaN.
Quotient(a, b) ==
    IF b = 0
    THEN [kind |-> IF a = 0 THEN "NaN" ELSE "inf", num |-> 0, den |-> 0]
    ELSE LET g == GCD(Abs(a), Abs(b))
             s == IF b < 0 THEN -1 ELSE 1
         IN  [kind |-> "finite", num |-> (s * a) \div g,
              den |-> Abs(b) \div g]

Number(n) == Quotient(n, 1)

RealTimeFactorInverted(processing_time, audio_duration) ==
    IF processing_time > 0
    THEN Quotient(processing_time, audio_duration)
    ELSE Number(0)

\* if processing_time > 0.0 { audio_duration as f64 / processing_time }
\* else { 0.0 }
RealTimeFactor(processing_time, audio_duration) ==
    IF processing_time > 0
    THEN Quotient(audio_duration, processing_time)
    ELSE Number(0)

\* if segment_count > 0 { audio_duration / segment_count as f32 } else { 0.0 }
AvgSegmentLength(audio_duration, segment_count) ==
    IF segment_count > 0
    THEN Quotient(audio_duration, segment_count)
    ELSE Number(0)

WordsPerMinuteUnguarded(word_count, audio_duration) ==
    Quotient(word_count * 60, audio_duration)

\* if audio_duration > 0.0 { (word_count as f32 * 60.0) / audio_duration }
\* else { 0.0 }
WordsPerMinute(word_count, audio_duration) ==
    IF audio_duration > 0
    THEN Quotient(word_count * 60, audio_duration)
    ELSE Number(0)

\* TranscriptionStats::new
TranscriptionStats(processing_time, audio_duration, segment_count, word_count) ==
    [processing_time    |-> processing_time,
     audio_duration     |-> audio_duration,
     real_time_factor   |-> RealTimeFactor(processing_time, audio_duration),
     segment_count      |-> segment_count,
     avg_segment_length |-> AvgSegmentLength(audio_duration, segment_count),
     word_count         |-> word_count,
     words_per_minute   |-> WordsPerMinute(word_count, audio_duration)]

\* The arguments looked at: processing_time is an f64 and audio_duration an
\* f32 of seconds, either of which may be zero or negative; the two counts
\* are usize.
ProcessingTimes == {-1, 0, 1, 2, 4}

AudioDurations == {-5, 0, 5, 10}

SegmentCounts == {0, 1, 5}

WordCounts == {0, 20}

StatsInputs ==
    [processing_time : ProcessingTimes, audio_duration : AudioDurations,
     segment_count : SegmentCounts, word_count : WordCounts]

NoStats == [tag |-> "None"]

\* One call of TranscriptionStats::new.
StatsNew ==
    /\ st_pc = "start"
    /\ st_out' = TranscriptionStats(st_in.processing_time, st_in.audio_duration,
                                    st_in.segment_count, st_in.word_count)
    /\ st_pc' = "done"
    /\ UNCHANGED <<st_in, pipeline_vars, resampler_vars, decimate_vars,
                   model_vars, hooks_vars, transcribe_vars,
                   utility_vars>>

StatsIdle ==
    /\ st_pc = "idle"
    /\ st_in = NoStats
    /\ st_out = NoStats

----------------------------------------------------------------------------
\* WhisperModel (model.rs)

\* pub enum WhisperModel
WhisperModel ==
    {"Tiny", "TinyEn", "TinyQ5_1", "TinyEnQ5_1", "TinyQ8_0", "Base",
     "BaseEn", "BaseQ5_1", "BaseEnQ5_1", "BaseQ8_0", "Small", "SmallEn",
     "SmallEnTdrz", "SmallQ5_1", "SmallEnQ5_1", "SmallQ8_0", "Medium",
     "MediumEn", "MediumQ5_0", "MediumEnQ5_0", "MediumQ8_0", "LargeV1",
     "LargeV2", "LargeV2Q5_0", "LargeV2Q8_0", "LargeV3", "LargeV3Q5_0",
     "LargeV3Turbo", "LargeV3TurboQ5_0", "LargeV3TurboQ8_0"}

\* WhisperModel::as_str
as_str(m) ==
    CASE m = "Tiny" -> "tiny"
      [] m = "TinyEn" -> "tiny.en"
      [] m = "TinyQ5_1" -> "tiny-q5_1"
      [] m = "TinyEnQ5_1" -> "tiny.en-q5_1"
      [] m = "TinyQ8_0" -> "tiny-q8_0"
      [] m = "Base" -> "base"
      [] m = "BaseEn" -> "base.en"
      [] m = "BaseQ5_1" -> "base-q5_1"
      [] m = "BaseEnQ5_1" -> "base.en-q5_1"
      [] m = "BaseQ8_0" -> "base-q8_0"
      [] m = "Small" -> "small"
      [] m = "SmallEn" -> "small.en"
      [] m = "SmallEnTdrz" -> "small.en-tdrz"
      [] m = "SmallQ5_1" -> "small-q5_1"
      [] m = "SmallEnQ5_1" -> "small.en-q5_1"
      [] m = "SmallQ8_0" -> "small-q8_0"
      [] m = "Medium" -> "medium"
      [] m = "MediumEn" -> "medium.en"
      [] m = "MediumQ5_0" -> "medium-q5_0"
      [] m = "MediumEnQ5_0" -> "medium.en-q5_0"
      [] m = "MediumQ8_0" -> "medium-q8_0"
      [] m = "LargeV1" -> "large-v1"
      [] m = "LargeV2" -> "large-v2"
      [] m = "LargeV2Q5_0" -> "large-v2-q5_0"
      [] m = "LargeV2Q8_0" -> "large-v2-q8_0"
      [] m = "LargeV3" -> "large-v3"
      [] m = "LargeV3Q5_0" -> "large-v3-q5_0"
      [] m = "LargeV3Turbo" -> "large-v3-turbo"
      [] m = "LargeV3TurboQ5_0" -> "large-v3-turbo-q5_0"
      [] m = "LargeV3TurboQ8_0" -> "large-v3-turbo-q8_0"

\* WhisperModel::all_models, in its order
all_models ==
    <<"Tiny", "TinyEn", "TinyQ5_1", "TinyEnQ5_1", "TinyQ8_0", "Base",
      "BaseEn", "BaseQ5_1", "BaseEnQ5_1", "BaseQ8_0", "Small", "SmallEn",
      "SmallEnTdrz", "SmallQ5_1", "SmallEnQ5_1", "SmallQ8_0", "Medium",
      "MediumEn", "MediumQ5_0", "MediumEnQ5_0", "MediumQ8_0", "LargeV1",
      "LargeV2", "LargeV2Q5_0", "LargeV2Q8_0", "LargeV3", "LargeV3Q5_0",
      "LargeV3Turbo", "LargeV3TurboQ5_0", "LargeV3TurboQ8_0">>

Ok(v) == [tag |-> "Ok", value |-> v]

\* <WhisperModel as FromStr>::from_str
from_str(s) ==
    CASE s = "tiny" -> Ok("Tiny")
      [] s = "tiny.en" -> Ok("TinyEn")
      [] s = "tiny-q5_1" -> Ok("TinyQ5_1")
      [] s = "tiny.en-q5_1" -> Ok("TinyEnQ5_1")
      [] s = "tiny-q8_0" -> Ok("TinyQ8_0")
      [] s = "base" -> Ok("Base")
      [] s = "base.en" -> Ok("BaseEn")
      [] s = "base-q5_1" -> Ok("BaseQ5_1")
      [] s = "base.en-q5_1" -> Ok("BaseEnQ5_1")
      [] s = "base-q8_0" -> Ok("BaseQ8_0")
      [] s = "small" -> Ok("Small")
      [] s = "small.en" -> Ok("SmallEn")
      [] s = "small.en-tdrz" -> Ok("SmallEnTdrz")
      [] s = "small-q5_1" -> Ok("SmallQ5_1")
      [] s = "small.en-q5_1" -> Ok("SmallEnQ5_1")
      [] s = "small-q8_0" -> Ok("SmallQ8_0")
      [] s = "medium" -> Ok("Medium")
      [] s = "medium.en" -> Ok("MediumEn")
      [] s = "medium-q5_0" -> Ok("MediumQ5_0")
      [] s = "medium.en-q5_0" -> Ok("MediumEnQ5_0")
      [] s = "medium-q8_0" -> Ok("MediumQ8_0")
      [] s = "large-v1" -> Ok("LargeV1")
      [] s = "large-v2" -> Ok("LargeV2")
      [] s = "large-v2-q5_0" -> Ok("LargeV2Q5_0")
      [] s = "large-v2-q8_0" -> Ok("LargeV2Q8_0")
      [] s = "large-v3" -> Ok("LargeV3")
      [] s = "large-v3-q5_0" -> Ok("LargeV3Q5_0")
      [] s = "large-v3-turbo" -> Ok("LargeV3Turbo")
      [] s = "large-v3-turbo-q5_0" -> Ok("LargeV3TurboQ5_0")
      [] s = "large-v3-turbo-q8_0" -> Ok("LargeV3TurboQ8_0")
      [] OTHER -> ErrMsg("unknown_model")
filenameWithoutPrefix(m) == as_str(m) \o ".bin"

\* WhisperModel::filename: format!("ggml-{}.bin", self.as_str())
filename(m) == "ggml-" \o as_str(m) \o ".bin"

\* The identifier strings.
Identifiers == {as_str(m) : m \in WhisperModel}

\* Strings that are no identifier: an unknown name, the empty string, another
\* case, surrounding space, a file name, a family without its version.
NonIdentifiers ==
    {"invalid_model", "", "Base", "TINY", "base ", " base", "ggml-base.bin",
     "large", "tiny.EN", "base.bin"}

ModelInputs ==
    [tag : {"model"}, value : WhisperModel]
        \cup [tag : {"string"}, value : Identifiers \cup NonIdentifiers]

NoModelOutput == [tag |-> "None"]

\* m.as_str()
ModelAsStr ==
    /\ md_pc = "start"
    /\ md_in.tag = "model"
    /\ md_out' = [tag |-> "as_str", as_str |-> as_str(md_in.value)]
    /\ md_pc' = "named"
    /\ UNCHANGED <<md_in, pipeline_vars, resampler_vars, decimate_vars,
                   stats_vars, hooks_vars, transcribe_vars,
                   utility_vars>>

\* WhisperModel::from_str(m.as_str())
ModelRoundTrip ==
    /\ md_pc = "named"
    /\ md_out' = [tag |-> "from_str", as_str |-> md_out.as_str,
                  parsed |-> from_str(md_out.as_str)]
    /\ md_pc' = "parsed"
    /\ UNCHANGED <<md_in, pipeline_vars, resampler_vars, decimate_vars,
                   stats_vars, hooks_vars, transcribe_vars,
                   utility_vars>>

\* m.filename()
ModelFilename ==
    /\ md_pc = "parsed"
    /\ md_in.tag = "model"
    /\ md_out' = [tag |-> "filename", as_str |-> md_out.as_str,
                  parsed |-> md_out.parsed,
                  filename |-> filename(md_in.value)]
    /\ md_pc' = "filed"
    /\ UNCHANGED <<md_in, pipeline_vars, resampler_vars, decimate_vars,
                   stats_vars, hooks_vars, transcribe_vars,
                   utility_vars>>

\* WhisperModel::from_str(s) of any string
ModelFromStr ==
    /\ md_pc = "start"
    /\ md_in.tag = "string"
    /\ md_out' = [tag |-> "from_str", as_str |-> md_in.value,
                  parsed |-> from_str(md_in.value)]
    /\ md_pc' = "parsed"
    /\ UNCHANGED <<md_in, pipeline_vars, resampler_vars, decimate_vars,
                   stats_vars, hooks_vars, transcribe_vars,
                   utility_vars>>

ModelIdle ==
    /\ md_pc = "idle"
    /\ md_in = NoModelOutput
    /\ md_out = NoModelOutput

----------------------------------------------------------------------------
\* install_logging_hooks (whisper/logging.rs)

\* Threads that call install_logging_hooks, and the calls each may make.
NumThreads == 2

MaxCalls == 2

Threads == 1..NumThreads

not_hooks_vars == <<pipeline_vars, resampler_vars, decimate_vars, stats_vars,
                    model_vars, transcribe_vars, utility_vars>>

NotCalling == [at |-> "idle", call |-> 0]

OnceMayRunWithoutLock(once) == once # "complete"

\* Once::call_once runs its closure only for the caller that finds the Once
\* incomplete; while the closure runs the Once is "running".
OnceMayRun(once) == once = "incomplete"

\* Once::call_once returns at once only when the Once is complete: a caller
\* that finds it running blocks until then.
OnceMayPass(once) == once = "complete"

\* install_logging_hooks() is entered by thread t.
HookCall(t) ==
    /\ hk_pc[t].at = "idle"
    /\ hk_calls[t] > 0
    /\ hk_calls' = [hk_calls EXCEPT ![t] = @ - 1]
    /\ hk_started' = Append(hk_started,
                            [thread |-> t, after_return |-> hk_returned > 0])
    /\ hk_pc' = [hk_pc EXCEPT ![t] = [at |-> "whisper",
                                      call |-> Len(hk_started) + 1]]
    /\ UNCHANGED <<not_hooks_vars, hk_returned, whisper_once, ggml_once, whisper_hook,
                   ggml_hook>>

\* WHISPER_LOG_TRAMPOLINE_INSTALL.call_once finds the Once incomplete.
WhisperOnceEnter(t) ==
    /\ hk_pc[t].at = "whisper"
    /\ OnceMayRun(whisper_once)
    /\ whisper_once' = "running"
    /\ hk_pc' = [hk_pc EXCEPT ![t].at = "whisper_log_set"]
    /\ UNCHANGED <<not_hooks_vars, hk_calls, hk_started, hk_returned, ggml_once,
                   whisper_hook, ggml_hook>>

\* The closure: whisper_log_set(Some(whisper_logging_trampoline), null).
WhisperLogSet(t) ==
    /\ hk_pc[t].at = "whisper_log_set"
    /\ whisper_hook' = Append(whisper_hook, hk_pc[t].call)
    /\ whisper_once' = "complete"
    /\ hk_pc' = [hk_pc EXCEPT ![t].at = "ggml"]
    /\ UNCHANGED <<not_hooks_vars, hk_calls, hk_started, hk_returned, ggml_once, ggml_hook>>

\* call_once finds the Once complete and returns.
WhisperOncePass(t) ==
    /\ hk_pc[t].at = "whisper"
    /\ OnceMayPass(whisper_once)
    /\ hk_pc' = [hk_pc EXCEPT ![t].at = "ggml"]
    /\ UNCHANGED <<not_hooks_vars, hk_calls, hk_started, hk_returned, whisper_once,
                   ggml_once, whisper_hook, ggml_hook>>

\* GGML_LOG_TRAMPOLINE_INSTALL.call_once finds the Once incomplete.
GgmlOnceEnter(t) ==
    /\ hk_pc[t].at = "ggml"
    /\ OnceMayRun(ggml_once)
    /\ ggml_once' = "running"
    /\ hk_pc' = [hk_pc EXCEPT ![t].at = "ggml_log_set"]
    /\ UNCHANGED <<not_hooks_vars, hk_calls, hk_started, hk_returned, whisper_once,
                   whisper_hook, ggml_hook>>

\* The closure: ggml_log_set(Some(ggml_logging_trampoline), null); then
\* install_logging_hooks returns.
GgmlLogSet(t) ==
    /\ hk_pc[t].at = "ggml_log_set"
    /\ ggml_hook' = Append(ggml_hook, hk_pc[t].call)
    /\ ggml_once' = "complete"
    /\ hk_pc' = [hk_pc EXCEPT ![t] = NotCalling]
    /\ hk_returned' = hk_returned + 1
    /\ UNCHANGED <<not_hooks_vars, hk_calls, hk_started, whisper_once, whisper_hook>>

\* call_once finds the Once complete; install_logging_hooks returns.
GgmlOncePass(t) ==
    /\ hk_pc[t].at = "ggml"
    /\ OnceMayPass(ggml_once)
    /\ hk_pc' = [hk_pc EXCEPT ![t] = NotCalling]
    /\ hk_returned' = hk_returned + 1
    /\ UNCHANGED <<not_hooks_vars, hk_calls, hk_started, whisper_once, ggml_once,
                   whisper_hook, ggml_hook>>

HooksIdle ==
    /\ hk_pc = <<>>
    /\ hk_calls = <<>>
    /\ hk_started = <<>>
    /\ hk_returned = 0
    /\ whisper_once = "idle"
    /\ ggml_once = "idle"
    /\ whisper_hook = <<>>
    /\ ggml_hook = <<>>

----------------------------------------------------------------------------
\* No transcription is looked at.
TranscribeIdle ==
    /\ tr_pc = "idle"
    /\ tr_kind = "none"
    /\ tr_model_path = FALSE
    /\ tr_audio_exists = FALSE
    /\ tr_stream = <<>>
    /\ tr_input = <<>>
    /\ tr_chunk = NoChunk
    /\ tr_engine = [ran |-> FALSE, n |-> 0, t |-> 0, read |-> <<>>,
                    retrieved |-> <<>>]
    /\ tr_i = 0
    /\ tr_text = <<>>
    /\ tr_segments = <<>>
    /\ tr_totals = [audio_duration |-> 0, segments |-> 0, words |-> 0,
                    chunks |-> 0, read |-> 0, retrieved |-> 0]
    /\ tr_rx_alive = TRUE
    /\ tr_out = <<>>
    /\ tr_result = [tag |-> "None"]

\* round_to_unit is not called.
RoundIdle ==
    /\ ru_pc = "idle"
    /\ ru_type = "none"
    /\ ru_build = "none"
    /\ ru_value = 0
    /\ ru_base = 0
    /\ ru_unit = 0
    /\ ru_overflowed = FALSE
    /\ ru_result = <<>>

\* No pair of decodes is looked at.
NormalizeIdle ==
    /\ nz_pc = "idle"
    /\ nz_left = 0
    /\ nz_no = 0
    /\ nz_batch = <<>>
    /\ nz_stream = <<>>

\* No model is downloaded.
DownloadIdle ==
    /\ dl_pc = <<>>
    /\ dl_file = <<>>
    /\ dl_downloaded = <<>>
    /\ dl_names = <<>>
    /\ dl_files = <<>>

UtilitiesIdle ==
    /\ RoundIdle
    /\ NormalizeIdle
    /\ DownloadIdle

OthersIdle ==
    /\ StatsIdle
    /\ ModelIdle
    /\ HooksIdle
    /\ TranscribeIdle
    /\ UtilitiesIdle

----------------------------------------------------------------------------
\* load_audio has not returned.
NoResult == [tag |-> "None"]

Init ==
    /\ mode \in {"streaming", "batch"}
    /\ path_exists \in BOOLEAN
    /\ flush_result = "none"
    /\ batch_pc = IF mode = "batch" THEN "start" ELSE "idle"
    /\ samples = <<>>
    /\ batch_result = NoResult
    /\ producer_pc = IF mode = "streaming" THEN "start" ELSE "idle"
    /\ packets_left = MaxPackets
    /\ frames_left = MaxFrames
    /\ chunk_samples = <<>>
    /\ chunk_index = 0
    /\ total_samples_processed = 0
    /\ normalized = 0
    /\ failure = "none"
    /\ send_failed = FALSE
    /\ chunk_chan = <<>>
    /\ rx_alive = TRUE
    /\ emitted = <<>>
    /\ consumer_pc = IF mode = "streaming" THEN "start" ELSE "idle"
    /\ audio_chunk = NoChunk
    /\ total_audio_duration = 0
    /\ infer_log = <<>>
    /\ out_chan = <<>>
    /\ caller_alive = TRUE
    /\ sent = <<>>
    /\ out_send_failed = FALSE
    /\ delivered = <<>>
    /\ caller_ended = FALSE
    /\ ResamplerIdle
    /\ DecimateIdle
    /\ OthersIdle

----------------------------------------------------------------------------
\* Producer: AudioProcessor::stream_audio and stream_audio_sync.

\* let _ = tx.send(msg): publish when the receiver is there, else note it.
Publish(msg) ==
    IF SendOk(rx_alive)
    THEN /\ chunk_chan' = Append(chunk_chan, msg)
         /\ emitted' = Append(emitted, msg)
         /\ send_failed' = send_failed
    ELSE /\ UNCHANGED <<chunk_chan, emitted>>
         /\ send_failed' = TRUE

\* The failures of the set-up that are sent on the channel before returning.
PublishedSetupFailures == {"ffmpeg_init", "file_not_found"}

\* The failures of the set-up that return through `?`.
SilentSetupFailures == {"open_input", "no_audio_stream", "decoder_context",
                        "audio_decoder"}

\* What the set-up can end with: ensure_initialized comes first, then
\* path.exists(), then the container, the stream and the decoder.
SetupOutcomesIgnoringPath(exists) ==
    {"ffmpeg_init", "ok"} \cup SilentSetupFailures

SetupOutcomes(exists) ==
    {"ffmpeg_init"} \cup (IF exists THEN {"ok"} \cup SilentSetupFailures
                                     ELSE {"file_not_found"})

\* ensure_initialized, path.exists(), format::input, best stream, decoder.
ProducerOpen ==
    /\ producer_pc = "start"
    /\ \E outcome \in SetupOutcomes(path_exists) :
         \/ /\ outcome = "ok"
            /\ producer_pc' = "packets"
            /\ UNCHANGED <<failure, send_failed, chunk_chan, emitted>>
         \/ /\ outcome \in PublishedSetupFailures
            /\ Publish(ErrMsg(outcome))
            /\ failure' = outcome
            /\ producer_pc' = "done"
         \/ /\ outcome \in SilentSetupFailures
            /\ failure' = outcome
            /\ producer_pc' = "done"
            /\ UNCHANGED <<send_failed, chunk_chan, emitted>>
    /\ UNCHANGED <<packets_left, frames_left, chunk_samples, chunk_index,
                   total_samples_processed, normalized, rx_alive>>
    /\ UNCHANGED <<consumer_vars, out_chan, caller_vars, offline_vars, flush_result>>

AfterSendPacketErrorSkips == "packets"

\* Err(e) of send_packet other than InvalidData: the error is sent and
\* stream_audio_sync returns it.
AfterSendPacketError == "done"

\* for (stream, packet) in ictx.packets() { match decoder.send_packet(..) }
ProducerPacket ==
    /\ producer_pc = "packets"
    /\ \/ /\ producer_pc' = "flush"          \* the iterator is exhausted
          /\ UNCHANGED <<packets_left, failure, send_failed, chunk_chan, emitted>>
       \/ /\ packets_left > 0
          /\ packets_left' = packets_left - 1
          /\ \E outcome \in {"other_stream", "Ok", "InvalidData", "Err"} :
               \/ /\ outcome \in {"other_stream", "InvalidData"}
                  /\ producer_pc' = "packets"
                  /\ UNCHANGED <<failure, send_failed, chunk_chan, emitted>>
               \/ /\ outcome = "Ok"
                  /\ producer_pc' = "frames"
                  /\ UNCHANGED <<failure, send_failed, chunk_chan, emitted>>
               \/ /\ outcome = "Err"
                  /\ Publish(ErrMsg("send_packet"))
                  /\ failure' = "send_packet"
                  /\ producer_pc' = AfterSendPacketError
    /\ UNCHANGED <<frames_left, chunk_samples, chunk_index,
                   total_samples_processed, normalized, rx_alive>>
    /\ UNCHANGED <<consumer_vars, out_chan, caller_vars, offline_vars, flush_result>>

\* while decoder.receive_frame(&mut frame).is_ok() { process ..; extend }
ProducerFrame ==
    /\ producer_pc = "frames"
    /\ \/ /\ producer_pc' = "packets"        \* receive_frame is not Ok
          /\ UNCHANGED <<frames_left, chunk_samples, normalized>>
       \/ /\ frames_left > 0
          /\ frames_left' = frames_left - 1
          /\ \/ /\ producer_pc' = "frames"   \* the frame fails to convert: skipped
                /\ UNCHANGED <<chunk_samples, normalized>>
             \/ \E n \in FrameSizes :
                  /\ chunk_samples' = Extend(chunk_samples, Samples(normalized, n))
                  /\ normalized' = normalized + n
                  /\ producer_pc' = "chunking"
    /\ UNCHANGED <<packets_left, chunk_index, total_samples_processed, failure,
                   send_failed, chunk_chan, rx_alive, emitted>>
    /\ UNCHANGED <<consumer_vars, out_chan, caller_vars, offline_vars, flush_result>>

\* while chunk_samples.len() >= TARGET_SAMPLES { drain; send; index += 1 }
ProducerChunk ==
    /\ producer_pc = "chunking"
    /\ IF VecLen(chunk_samples) >= TARGET_SAMPLES
       THEN /\ chunk_samples' = AfterDrain(chunk_samples, TARGET_SAMPLES)
            /\ Publish(AudioChunk(ChunkData(chunk_samples),
                                  chunk_index, total_samples_processed, FALSE))
            /\ IF SendOk(rx_alive)
               THEN /\ chunk_index' = NextChunkIndex(chunk_index)
                    /\ total_samples_processed' =
                           total_samples_processed + TARGET_SAMPLES
                    /\ producer_pc' = "chunking"
               ELSE /\ producer_pc' = "done"  \* receiver dropped: return Ok(())
                    /\ UNCHANGED <<chunk_index, total_samples_processed>>
       ELSE /\ producer_pc' = "frames"
            /\ UNCHANGED <<chunk_samples, chunk_index, total_samples_processed,
                           send_failed, chunk_chan, emitted>>
    /\ UNCHANGED <<packets_left, frames_left, normalized, failure, rx_alive>>
    /\ UNCHANGED <<consumer_vars, out_chan, caller_vars, offline_vars, flush_result>>

\* Err(e) of decoder.send_eof(): warn!("Failed to flush decoder, but continuing")
AfterFlushErrorAborts == "done"

AfterFlushError == "final"

\* match decoder.send_eof()
ProducerFlush ==
    /\ producer_pc = "flush"
    /\ \/ /\ producer_pc' = "flush_frames"   \* Ok(())
          /\ flush_result' = "Ok"
       \/ /\ producer_pc' = AfterFlushError  \* Err: warn and continue
          /\ flush_result' = "Err"
    /\ UNCHANGED <<packets_left, frames_left, chunk_samples, chunk_index,
                   total_samples_processed, normalized, failure, send_failed,
                   chunk_chan, rx_alive, emitted>>
    /\ UNCHANGED <<consumer_vars, out_chan, caller_vars, offline_vars>>

\* while decoder.receive_frame(&mut frame).is_ok() { process ..; extend }
ProducerFlushFrame ==
    /\ producer_pc = "flush_frames"
    /\ \/ /\ producer_pc' = "final"          \* receive_frame is not Ok
          /\ UNCHANGED <<frames_left, chunk_samples, normalized>>
       \/ /\ frames_left > 0
          /\ frames_left' = frames_left - 1
          /\ producer_pc' = "flush_frames"
          /\ \/ UNCHANGED <<chunk_samples, normalized>>   \* skipped frame
             \/ \E n \in FrameSizes :
                  /\ chunk_samples' = Extend(chunk_samples, Samples(normalized, n))
                  /\ normalized' = normalized + n
    /\ UNCHANGED <<packets_left, chunk_index, total_samples_processed, failure,
                   send_failed, chunk_chan, rx_alive, emitted>>
    /\ UNCHANGED <<consumer_vars, out_chan, caller_vars, offline_vars, flush_result>>

\* else if chunk_index == 0
NoChunkWasSentIgnoresIndex(index) == TRUE

NoChunkWasSent(index) == index = 0

\* if !chunk_samples.is_empty() { send final } else if chunk_index == 0 { Err }
ProducerFinal ==
    /\ producer_pc = "final"
    /\ producer_pc' = "done"
    /\ IF chunk_samples # <<>>
       THEN /\ Publish(AudioChunk(chunk_samples, chunk_index,
                                  total_samples_processed, TRUE))
            /\ chunk_samples' = <<>>
            /\ UNCHANGED failure
       ELSE IF NoChunkWasSent(chunk_index)
       THEN /\ Publish(ErrMsg("no_audio_data"))
            /\ failure' = "no_audio_data"
            /\ UNCHANGED chunk_samples
       ELSE UNCHANGED <<chunk_samples, failure, send_failed, chunk_chan, emitted>>
    /\ UNCHANGED <<packets_left, frames_left, chunk_index,
                   total_samples_processed, normalized, rx_alive>>
    /\ UNCHANGED <<consumer_vars, out_chan, caller_vars, offline_vars, flush_result>>

Producer ==
    \/ ProducerOpen
    \/ ProducerPacket
    \/ ProducerFrame
    \/ ProducerChunk
    \/ ProducerFlush
    \/ ProducerFlushFrame
    \/ ProducerFinal

----------------------------------------------------------------------------
\* Consumer: StreamWhisperTranscriber::transcribe and process_audio_stream.

\* let _ = tx.send(msg) towards the caller.
PublishOut(msg) ==
    IF SendOk(caller_alive)
    THEN /\ out_chan' = Append(out_chan, msg)
         /\ sent' = Append(sent, msg)
         /\ out_send_failed' = out_send_failed
    ELSE /\ UNCHANGED <<out_chan, sent>>
         /\ out_send_failed' = TRUE

\* The consumer leaves process_audio_stream: `input` and `tx` are dropped.
ConsumerStops ==
    /\ consumer_pc' = "done"
    /\ rx_alive' = FALSE
    /\ chunk_chan' = <<>>

\* Err(e) of state.full / full_n_segments: warn, continue with next chunk.
AfterInferenceFailureAborts == "done"

AfterInferenceFailure == "recv"

\* if tx.send(Ok(streaming_chunk)).is_err() { break; }
AfterFailedPublishContinues == "recv"

AfterFailedPublish == "done"

\* The consumer goes to `next`: back to the loop head, or out of the function.
ConsumerGoes(next) ==
    IF next = "done"
    THEN ConsumerStops
    ELSE /\ consumer_pc' = next
         /\ UNCHANGED <<rx_alive, chunk_chan>>

\* self.context.create_state(); on Err transcribe sends Err(e) to the caller.
ConsumerStart ==
    /\ consumer_pc = "start"
    /\ \/ /\ consumer_pc' = "recv"
          /\ UNCHANGED <<rx_alive, chunk_chan, out_chan, sent, out_send_failed>>
       \/ /\ ConsumerStops
          /\ PublishOut(ErrMsg("create_state"))
    /\ UNCHANGED <<audio_chunk, total_audio_duration, infer_log>>
    /\ UNCHANGED <<producer_vars, emitted, caller_vars, offline_vars>>

SendersKept(pc) == FALSE

\* The only sender of the chunk channel is moved into the producer's closure
\* and dropped when the closure returns.
SendersGone(pc) == pc = "done"

\* while let Some(chunk_result) = input.next().await { match chunk_result .. }
ConsumerRecv ==
    /\ consumer_pc = "recv"
    /\ IF chunk_chan # <<>>
       THEN LET msg == Head(chunk_chan)
            IN  IF msg.tag = "Ok"
                THEN /\ chunk_chan' = Tail(chunk_chan)
                     /\ total_audio_duration' =
                            total_audio_duration + VecLen(msg.samples)
                     /\ audio_chunk' = msg
                     /\ infer_log' = Append(infer_log,
                            [index |-> msg.index, result |-> "running"])
                     /\ consumer_pc' = "infer"
                     /\ UNCHANGED <<rx_alive, out_chan, sent, out_send_failed>>
                ELSE /\ PublishOut(msg)       \* let _ = tx.send(Err(e)); break
                     /\ ConsumerStops
                     /\ UNCHANGED <<audio_chunk, total_audio_duration, infer_log>>
       ELSE /\ SendersGone(producer_pc)       \* input.next() yields None
            /\ ConsumerStops
            /\ UNCHANGED <<audio_chunk, total_audio_duration, infer_log,
                           out_chan, sent, out_send_failed>>
    /\ UNCHANGED <<producer_vars, emitted, caller_vars, offline_vars>>

\* state.full(params, &audio_chunk.samples) and state.full_n_segments()
\* have returned: the call started last is over.
InferenceStillRunning(log, outcome) == log

InferenceReturned(log, outcome) ==
    [log EXCEPT ![Len(log)].result = outcome]

\* match state.full(params, &audio_chunk.samples) { .. tx.send(Ok(chunk)) .. }
ConsumerInfer ==
    /\ consumer_pc = "infer"
    /\ \E outcome \in {"full_err", "n_segments_err", "ok"} :
         /\ infer_log' = InferenceReturned(infer_log, outcome)
         /\ IF outcome = "ok"
            THEN /\ PublishOut(StreamingChunk(audio_chunk))
                 /\ IF SendOk(caller_alive)
                    THEN ConsumerGoes("recv")
                    ELSE ConsumerGoes(AfterFailedPublish)
            ELSE /\ ConsumerGoes(AfterInferenceFailure)
                 /\ UNCHANGED <<out_chan, sent, out_send_failed>>
    /\ audio_chunk' = NoChunk
    /\ UNCHANGED total_audio_duration
    /\ UNCHANGED <<producer_vars, emitted, caller_vars, offline_vars>>

Consumer ==
    \/ ConsumerStart
    \/ ConsumerRecv
    \/ ConsumerInfer

----------------------------------------------------------------------------
\* Caller: polls StreamingTranscriptionResult, or drops it.

\* StreamingTranscriptionResult::poll_next
CallerRecv ==
    /\ mode = "streaming"
    /\ caller_alive
    /\ ~caller_ended
    /\ IF out_chan # <<>>
       THEN /\ delivered' = Append(delivered, Head(out_chan))
            /\ out_chan' = Tail(out_chan)
            /\ UNCHANGED caller_ended
       ELSE /\ consumer_pc = "done"           \* every sender is gone: None
            /\ caller_ended' = TRUE
            /\ UNCHANGED <<delivered, out_chan>>
    /\ UNCHANGED caller_alive
    /\ UNCHANGED <<producer_vars, chunk_chan, rx_alive, emitted, consumer_vars,
                   offline_vars>>

\* The caller drops the result stream before its end.
CallerDrop ==
    /\ mode = "streaming"
    /\ caller_alive
    /\ ~caller_ended
    /\ caller_alive' = FALSE
    /\ out_chan' = <<>>
    /\ UNCHANGED <<delivered, caller_ended>>
    /\ UNCHANGED <<producer_vars, chunk_chan, rx_alive, emitted, consumer_vars,
                   offline_vars>>


----------------------------------------------------------------------------
\* Batch mode: AudioProcessor::load_audio and load_audio_sync.

\* return Err(..) out of load_audio_sync, handed on by load_audio.
BatchFails(kind) ==
    /\ batch_result' = ErrMsg(kind)
    /\ batch_pc' = "done"

\* ensure_initialized, path.exists(), format::input, best stream, decoder.
BatchOpen ==
    /\ batch_pc = "start"
    /\ \E outcome \in SetupOutcomes(path_exists) :
         IF outcome = "ok"
         THEN /\ batch_pc' = "packets"
              /\ UNCHANGED batch_result
         ELSE BatchFails(outcome)
    /\ UNCHANGED <<static_vars, samples, producer_vars, chunk_chan,
                   rx_alive, emitted, consumer_vars, out_chan, caller_vars>>

\* for (stream, packet) in ictx.packets() { match decoder.send_packet(..) }
BatchPacket ==
    /\ batch_pc = "packets"
    /\ \/ /\ batch_pc' = "flush"              \* the iterator is exhausted
          /\ UNCHANGED <<packets_left, batch_result>>
       \/ /\ packets_left > 0
          /\ packets_left' = packets_left - 1
          /\ \E outcome \in {"other_stream", "Ok", "InvalidData", "Err"} :
               \/ /\ outcome \in {"other_stream", "InvalidData"}
                  /\ batch_pc' = "packets"
                  /\ UNCHANGED batch_result
               \/ /\ outcome = "Ok"
                  /\ batch_pc' = "frames"
                  /\ UNCHANGED batch_result
               \/ /\ outcome = "Err"
                  /\ BatchFails("send_packet")
    /\ UNCHANGED <<static_vars, flush_result, samples, producer_pc,
                   frames_left, chunk_samples, chunk_index,
                   total_samples_processed, normalized, failure, send_failed,
                   chunk_chan, rx_alive, emitted, consumer_vars, out_chan,
                   caller_vars>>

\* One decoded frame through process_audio_frame(..)?: an Err aborts the
\* load, a failed conversion appends nothing, else n samples are appended.
BatchProcessFrame(next) ==
    \/ /\ BatchFails("create_resampler")
       /\ UNCHANGED <<samples, normalized>>
    \/ /\ batch_pc' = next
       /\ UNCHANGED <<samples, normalized, batch_result>>
    \/ \E n \in FrameSizes :
         /\ samples' = Extend(samples, Samples(normalized, n))
         /\ normalized' = normalized + n
         /\ batch_pc' = next
         /\ UNCHANGED batch_result

\* while decoder.receive_frame(&mut frame).is_ok() { process_audio_frame(..)? }
BatchFrame ==
    /\ batch_pc = "frames"
    /\ \/ /\ batch_pc' = "packets"            \* receive_frame is not Ok
          /\ UNCHANGED <<frames_left, samples, normalized, batch_result>>
       \/ /\ frames_left > 0
          /\ frames_left' = frames_left - 1
          /\ BatchProcessFrame("frames")
    /\ UNCHANGED <<static_vars, flush_result, producer_pc, packets_left,
                   chunk_samples, chunk_index, total_samples_processed,
                   failure, send_failed, chunk_chan, rx_alive, emitted,
                   consumer_vars, out_chan, caller_vars>>

\* match decoder.send_eof()
BatchFlush ==
    /\ batch_pc = "flush"
    /\ \/ /\ batch_pc' = "flush_frames"       \* Ok(())
          /\ flush_result' = "Ok"
       \/ /\ batch_pc' = "finish"             \* Err: warn and continue
          /\ flush_result' = "Err"
    /\ UNCHANGED <<static_vars, samples, batch_result, producer_pc,
                   packets_left, frames_left, chunk_samples, chunk_index,
                   total_samples_processed, normalized, failure, send_failed,
                   chunk_chan, rx_alive, emitted, consumer_vars, out_chan,
                   caller_vars>>

\* while decoder.receive_frame(&mut frame).is_ok() { process_audio_frame(..)? }
BatchFlushFrame ==
    /\ batch_pc = "flush_frames"
    /\ \/ /\ batch_pc' = "finish"             \* receive_frame is not Ok
          /\ UNCHANGED <<frames_left, samples, normalized, batch_result>>
       \/ /\ frames_left > 0
          /\ frames_left' = frames_left - 1
          /\ BatchProcessFrame("flush_frames")
    /\ UNCHANGED <<static_vars, flush_result, producer_pc, packets_left,
                   chunk_samples, chunk_index, total_samples_processed,
                   failure, send_failed, chunk_chan, rx_alive, emitted,
                   consumer_vars, out_chan, caller_vars>>

\* Ok(AudioData { samples, sample_rate: 16000, duration })
AudioData(v) == [tag |-> "Ok", samples |-> v, sample_rate |-> SAMPLE_RATE]

\* if samples.is_empty() { return Err(..) } .. Ok(AudioData { .. })
BatchFinish ==
    /\ batch_pc = "finish"
    /\ IF samples = <<>>
       THEN BatchFails("no_audio_data")
       ELSE /\ batch_result' = AudioData(samples)
            /\ batch_pc' = "done"
    /\ UNCHANGED <<static_vars, flush_result, samples, producer_vars,
                   chunk_chan, rx_alive, emitted, consumer_vars, out_chan,
                   caller_vars>>

Batch ==
    \/ BatchOpen
    \/ BatchPacket
    \/ BatchFrame
    \/ BatchFlush
    \/ BatchFlushFrame
    \/ BatchFinish

----------------------------------------------------------------------------
Next ==
    \/ ProducerOpen
    \/ ProducerPacket
    \/ ProducerFrame
    \/ ProducerChunk
    \/ ProducerFlush
    \/ ProducerFlushFrame
    \/ ProducerFinal
    \/ ConsumerStart
    \/ ConsumerRecv
    \/ ConsumerInfer
    \/ CallerRecv
    \/ CallerDrop
    \/ BatchOpen
    \/ BatchPacket
    \/ BatchFrame
    \/ BatchFlush
    \/ BatchFlushFrame
    \/ BatchFinish

Spec == Init /\ [][Next]_vars

\* Both tasks are scheduled until they return: the producer on a blocking
\* worker thread, the consumer on the runtime.
FairSpec == Spec /\ WF_vars(Producer) /\ WF_vars(Consumer)

\* The same with a caller that goes on polling the result stream for as long
\* as it holds it.
PollingSpec == FairSpec /\ WF_vars(CallerRecv)

----------------------------------------------------------------------------
\* Transcription: transcribe_audio_file (lib.rs), WhisperTranscriber
\* (transcription.rs) and StreamWhisperTranscriber (whisper/streaming.rs).

tr_const == <<tr_kind, tr_model_path, tr_audio_exists, tr_stream>>

not_transcribe_vars == <<pipeline_vars, resampler_vars, decimate_vars,
                         stats_vars, model_vars, hooks_vars, utility_vars>>

\* A text is a sequence of characters: " " is whitespace, "a" is not.
SegmentTexts == {<<" ", "a">>, <<"a">>, <<" ">>}

\* str::split_whitespace().count(): the maximal runs of non-whitespace.
RECURSIVE SplitWhitespaceCount(_, _)
SplitWhitespaceCount(text, in_word) ==
    IF text = <<>>
    THEN 0
    ELSE IF Head(text) = " "
         THEN SplitWhitespaceCount(Tail(text), FALSE)
         ELSE (IF in_word THEN 0 ELSE 1)
                  + SplitWhitespaceCount(Tail(text), TRUE)

WordCount(text) == SplitWhitespaceCount(text, FALSE)

\* text.trim().is_empty()
IsBlank(text) == \A k \in 1..Len(text) : text[k] = " "

\* The segments one inference may leave in the engine's state, at most
\* MaxSegments of them.
MaxSegments == 2

\* Segment times t0 and t1 as the engine reports them, in centiseconds.
EngineTimes == {0, 500, 1000}

\* What the engine holds for one segment; fails names the one accessor
\* (full_get_segment_text, _t0, _t1) that returns Err for it, if any.
EngineSegments ==
    {seg \in [fails : {"none", "text", "t0", "t1"}, text : SegmentTexts,
              t0 : EngineTimes, t1 : EngineTimes] : seg.t0 =< seg.t1}

\* The state of the engine after an inference: the number of segments it
\* holds, the end of the segment read last, what failed for each segment
\* read so far, and the segments among them that were read in full.
EngineState(n) ==
    [ran |-> TRUE, n |-> n, t |-> 0, read |-> <<>>, retrieved |-> <<>>]

\* No inference has left segments to read.
NoEngine ==
    [ran |-> FALSE, n |-> 0, t |-> 0, read |-> <<>>, retrieved |-> <<>>]

\* The engine reports segments in the order of the audio, one after the
\* other, and inside the audio it was given (seconds long): what it may hold
\* for the next segment.
NextSegments(engine, seconds) ==
    {seg \in EngineSegments : engine.t =< seg.t0 /\ seg.t1 =< seconds * 100}

\* The next segment, where only its text is read.
NextTexts(engine) ==
    {seg \in EngineSegments :
        seg.fails \in {"none", "text"} /\ seg.t0 = engine.t /\ seg.t1 = engine.t}

\* The engine after segment seg has been read.
EngineAfter(engine, seg) ==
    [engine EXCEPT
        !.t = seg.t1,
        !.read = Append(@, seg.fails),
        !.retrieved = IF seg.fails = "none" THEN Append(@, seg) ELSE @]

AfterTextFailureAborts == "abort"

\* Err(e) of full_get_segment_text(i): warn!(..); continue
AfterTextFailure == "continue"

\* TranscriptionSegment { text, start, end, .. } with
\* start = full_get_segment_t0(i)? as f64 / 100.0, and end likewise from t1;
\* the times modelled are whole seconds.
TranscriptionSegment(seg) ==
    [text |-> seg.text, start |-> seg.t0 \div 100, end |-> seg.t1 \div 100]

PushSegmentFront(segments, segment) == <<segment>> \o segments

\* segments.push(TranscriptionSegment { .. })
PushSegment(segments, segment) == Append(segments, segment)

\* Ok(TranscriptionResult { text: full_text, segments, .. })
TranscriptionResult(text, segments) ==
    [tag |-> "Ok", text |-> text, segments |-> segments]

\* What WhisperTranscriber::new can end with: ModelManager::new()?, then
\* config.model_path or find_default_model().await?, then
\* spawn_blocking(WhisperContext::new_with_params) with its two map_err.
TranscriberOutcomes(model_path_set) ==
    {"xdg_dirs", "model_task_join", "load_model", "ok"}
        \cup (IF model_path_set THEN {} ELSE {"no_model"})

\* What processor.load_audio(audio_path) can end with.
LoadAudioOutcomes(exists) ==
    SetupOutcomes(exists)
        \cup (IF exists
              THEN {"send_packet", "create_resampler", "no_audio_data"}
              ELSE {})

\* transcribe_sync returns: to transcribe_audio_file in batch mode, to the
\* chunk loop of transcribe_audio_stream in streaming mode, where an Err is
\* logged and the loop continues with the next chunk.
SyncReturns(result, engine) ==
    /\ tr_engine' = engine
    /\ tr_text' = <<>>
    /\ tr_i' = 0
    /\ IF tr_kind = "batch"
       THEN /\ tr_result' = result
            /\ tr_pc' = "done"
            /\ tr_segments' = <<>>
            /\ tr_chunk' = NoChunk
       ELSE /\ UNCHANGED tr_result
            /\ IF result.tag = "Ok"
               THEN /\ tr_pc' = "send"
                    /\ tr_segments' = result.segments
                    /\ UNCHANGED tr_chunk
               ELSE /\ tr_pc' = "recv"
                    /\ tr_segments' = <<>>
                    /\ tr_chunk' = NoChunk

\* WhisperTranscriber::new(config.clone()).await?
TranscriberNew ==
    /\ tr_pc = "new"
    /\ \E outcome \in TranscriberOutcomes(tr_model_path) :
         IF outcome = "ok"
         THEN /\ tr_pc' = "load_audio"
              /\ UNCHANGED tr_result
         ELSE /\ tr_pc' = "done"
              /\ tr_result' = ErrMsg(outcome)
    /\ UNCHANGED <<tr_const, tr_input, tr_chunk, tr_engine, tr_i, tr_text,
                   tr_segments, tr_totals, tr_rx_alive, tr_out,
                   not_transcribe_vars>>

\* let audio_data = processor.load_audio(audio_path).await?
LoadAudio ==
    /\ tr_pc = "load_audio"
    /\ \E outcome \in LoadAudioOutcomes(tr_audio_exists) :
         IF outcome = "ok"
         THEN /\ tr_pc' = "transcribe"
              /\ tr_chunk' = AudioData(Samples(0, TARGET_SAMPLES))
              /\ UNCHANGED tr_result
         ELSE /\ tr_pc' = "done"
              /\ tr_result' = ErrMsg(outcome)
              /\ UNCHANGED tr_chunk
    /\ UNCHANGED <<tr_const, tr_input, tr_engine, tr_i, tr_text,
                   tr_segments, tr_totals, tr_rx_alive, tr_out,
                   not_transcribe_vars>>

\* transcribe_sync up to the segment loop: context.create_state()?,
\* state.full(params, &audio_data.samples)?, state.full_n_segments()?
SyncBegin ==
    /\ tr_pc = "transcribe"
    /\ \/ \E kind \in {"create_state", "full", "n_segments"} :
            SyncReturns(ErrMsg(kind), NoEngine)
       \/ /\ \E num_segments \in 0..MaxSegments :
               tr_engine' = EngineState(num_segments)
          /\ tr_i' = 0
          /\ tr_text' = <<>>
          /\ tr_segments' = <<>>
          /\ tr_pc' = "segments"
          /\ UNCHANGED <<tr_chunk, tr_result>>
    /\ UNCHANGED <<tr_const, tr_input, tr_totals, tr_rx_alive, tr_out,
                   not_transcribe_vars>>

\* for i in 0..num_segments { .. }: one iteration
SyncSegment ==
    /\ tr_pc = "segments"
    /\ tr_kind \in {"batch", "segments"}
    /\ tr_i < tr_engine.n
    /\ \E seg \in NextSegments(tr_engine, Duration(tr_chunk.samples)) :
       LET skip == seg.fails = "text" /\ AfterTextFailure = "continue"
       IN  IF seg.fails = "none" \/ skip
           THEN /\ tr_i' = tr_i + 1
                /\ tr_text' = IF skip THEN tr_text ELSE tr_text \o seg.text
                /\ tr_segments' =
                       IF skip
                       THEN tr_segments
                       ELSE PushSegment(tr_segments, TranscriptionSegment(seg))
                /\ tr_engine' = EngineAfter(tr_engine, seg)
                /\ UNCHANGED <<tr_pc, tr_chunk, tr_result>>
           ELSE SyncReturns(ErrMsg(IF seg.fails = "t1" THEN "segment_t1"
                                   ELSE IF seg.fails = "t0" THEN "segment_t0"
                                   ELSE "segment_text"),
                            EngineAfter(tr_engine, seg))
    /\ UNCHANGED <<tr_const, tr_input, tr_totals, tr_rx_alive, tr_out,
                   not_transcribe_vars>>

\* Ok(TranscriptionResult { text: full_text, segments, .. })
SyncFinish ==
    /\ tr_pc = "segments"
    /\ tr_kind \in {"batch", "segments"}
    /\ tr_i = tr_engine.n
    /\ SyncReturns(TranscriptionResult(tr_text, tr_segments), tr_engine)
    /\ UNCHANGED <<tr_const, tr_input, tr_totals, tr_rx_alive, tr_out,
                   not_transcribe_vars>>

\* The AudioStream a decode can hand over: full chunks of TARGET_SAMPLES
\* samples, then a final chunk, an error, or nothing more.
FullChunk(i) ==
    AudioChunk(Samples(i * TARGET_SAMPLES, TARGET_SAMPLES), i,
               i * TARGET_SAMPLES, FALSE)

FinalChunk(i, n) ==
    AudioChunk(Samples(i * TARGET_SAMPLES, n), i, i * TARGET_SAMPLES, TRUE)

FinalSizes == {TARGET_SAMPLES \div 2}

StreamTails(k) ==
    {<<>>, <<ErrMsg("send_packet")>>}
        \cup {<<FinalChunk(k, n)>> : n \in FinalSizes}

AudioStreams(max_full) ==
    UNION {{[i \in 1..k |-> FullChunk(i - 1)] \o tail : tail \in StreamTails(k)} :
              k \in 0..max_full} \ {<<>>}

\* The running totals of a stream; read and retrieved are history: of the
\* StreamingChunks sent by process_audio_stream, the segments whose text was
\* asked for and those whose text was obtained.
NoTotals ==
    [audio_duration |-> 0, segments |-> 0, words |-> 0, chunks |-> 0,
     read |-> 0, retrieved |-> 0]

\* while let Some(chunk_result) = audio_stream.next().await { match .. }
SegmentsRecv ==
    /\ tr_kind = "segments"
    /\ tr_pc = "recv"
    /\ IF tr_input = <<>>
       THEN /\ tr_pc' = "done"
            /\ UNCHANGED <<tr_input, tr_chunk>>
       ELSE /\ tr_input' = Tail(tr_input)
            /\ IF Head(tr_input).tag = "Ok"
               THEN /\ tr_chunk' = Head(tr_input)
                    /\ tr_pc' = "transcribe"
               ELSE /\ tr_pc' = "done"        \* error!(..); break
                    /\ UNCHANGED tr_chunk
    /\ UNCHANGED <<tr_const, tr_engine, tr_i, tr_text, tr_segments, tr_totals,
                   tr_rx_alive, tr_out, tr_result, not_transcribe_vars>>

StreamingStartInChunk(chunk, segment) == segment.start

\* start: chunk.start_time as f64 + segment.start
StreamingStart(chunk, segment) == chunk.start_time + segment.start

\* let streaming_chunk = StreamingChunk { .. } of transcribe_audio_stream
SegmentChunk(chunk, segment, chunk_count) ==
    [tag |-> "Ok", text |-> segment.text,
     start |-> StreamingStart(chunk, segment),
     end |-> chunk.start_time + segment.end,
     is_final |-> chunk.is_final /\ chunk_count = 0,
     chunk_index |-> chunk.index]

\* for segment in result.segments { if !segment.text.trim().is_empty() { .. } }
SegmentsSend ==
    /\ tr_pc = "send"
    /\ tr_i < Len(tr_segments)
    /\ LET segment == tr_segments[tr_i + 1]
       IN  IF IsBlank(segment.text)
           THEN /\ tr_i' = tr_i + 1
                /\ UNCHANGED <<tr_pc, tr_out, tr_segments, tr_chunk>>
           ELSE IF SendOk(tr_rx_alive)
                THEN /\ tr_out' = Append(tr_out,
                            SegmentChunk(tr_chunk, segment, tr_totals.chunks))
                     /\ tr_i' = tr_i + 1
                     /\ UNCHANGED <<tr_pc, tr_segments, tr_chunk>>
                ELSE /\ tr_pc' = "done"       \* warn!(..); return
                     /\ tr_i' = 0
                     /\ tr_segments' = <<>>
                     /\ tr_chunk' = NoChunk
                     /\ UNCHANGED tr_out
    /\ UNCHANGED <<tr_const, tr_input, tr_engine, tr_text, tr_totals,
                   tr_rx_alive, tr_result, not_transcribe_vars>>

\* chunk_count += 1; if chunk.is_final { break }
SegmentsNext ==
    /\ tr_pc = "send"
    /\ tr_i = Len(tr_segments)
    /\ tr_totals' = [tr_totals EXCEPT !.chunks = @ + 1]
    /\ tr_pc' = IF tr_chunk.is_final THEN "done" ELSE "recv"
    /\ tr_i' = 0
    /\ tr_segments' = <<>>
    /\ tr_chunk' = NoChunk
    /\ tr_engine' = NoEngine
    /\ UNCHANGED <<tr_const, tr_input, tr_text, tr_rx_alive,
                   tr_out, tr_result, not_transcribe_vars>>

\* StreamWhisperTranscriber::transcribe: Err(e) of process_audio_stream is
\* sent to the caller; process_audio_stream begins with create_state()?.
StreamStart ==
    /\ tr_kind = "streaming"
    /\ tr_pc = "start"
    /\ \/ /\ tr_pc' = "recv"
          /\ UNCHANGED tr_out
       \/ /\ tr_pc' = "done"
          /\ tr_out' = IF SendOk(tr_rx_alive)
                       THEN Append(tr_out, ErrMsg("create_state"))
                       ELSE tr_out
    /\ UNCHANGED <<tr_const, tr_input, tr_chunk, tr_engine, tr_i, tr_text,
                   tr_segments, tr_totals, tr_rx_alive, tr_result,
                   not_transcribe_vars>>

DurationAfterRecvNominal(total, chunk) == total + StartTime(TARGET_SAMPLES)

\* total_audio_duration += audio_chunk.duration
DurationAfterRecv(total, chunk) == total + chunk.duration

\* while let Some(chunk_result) = input.next().await { match chunk_result .. }
StreamRecv ==
    /\ tr_kind = "streaming"
    /\ tr_pc = "recv"
    /\ IF tr_input = <<>>
       THEN /\ tr_pc' = "done"
            /\ UNCHANGED <<tr_input, tr_chunk, tr_totals, tr_out>>
       ELSE /\ tr_input' = Tail(tr_input)
            /\ IF Head(tr_input).tag = "Ok"
               THEN /\ tr_chunk' = Head(tr_input)
                    /\ tr_totals' =
                           [tr_totals EXCEPT !.audio_duration =
                               DurationAfterRecv(@, Head(tr_input))]
                    /\ tr_pc' = "infer"
                    /\ UNCHANGED tr_out
               ELSE /\ tr_pc' = "done"        \* let _ = tx.send(Err(e)); break
                    /\ tr_out' = IF SendOk(tr_rx_alive)
                                 THEN Append(tr_out, Head(tr_input))
                                 ELSE tr_out
                    /\ UNCHANGED <<tr_chunk, tr_totals>>
    /\ tr_engine' = NoEngine
    /\ UNCHANGED <<tr_const, tr_i, tr_text, tr_segments,
                   tr_rx_alive, tr_result, not_transcribe_vars>>

\* match state.full(params, &audio_chunk.samples) { Ok(_) =>
\*     match state.full_n_segments() { Ok(num_segments) => .. } }
\* Either Err is logged and the loop goes on with the next chunk.
StreamInfer ==
    /\ tr_pc = "infer"
    /\ \/ /\ tr_pc' = "recv"
          /\ tr_chunk' = NoChunk
          /\ UNCHANGED <<tr_engine, tr_i, tr_text>>
       \/ /\ \E num_segments \in 0..MaxSegments :
               tr_engine' = EngineState(num_segments)
          /\ tr_i' = 0
          /\ tr_text' = <<>>
          /\ tr_pc' = "texts"
          /\ UNCHANGED tr_chunk
    /\ UNCHANGED <<tr_const, tr_input, tr_segments, tr_totals, tr_rx_alive,
                   tr_out, tr_result, not_transcribe_vars>>

\* for i in 0..num_segments { match state.full_get_segment_text(i) {
\*     Ok(text) => chunk_text.push_str(&text), Err(e) => warn!(..) } }
StreamSegment ==
    /\ tr_pc = "texts"
    /\ tr_i < tr_engine.n
    /\ \E seg \in NextTexts(tr_engine) :
         /\ tr_text' = IF seg.fails = "text" THEN tr_text
                       ELSE tr_text \o seg.text
         /\ tr_engine' = EngineAfter(tr_engine, seg)
    /\ tr_i' = tr_i + 1
    /\ UNCHANGED <<tr_const, tr_pc, tr_input, tr_chunk,
                   tr_segments, tr_totals, tr_rx_alive, tr_out, tr_result,
                   not_transcribe_vars>>

\* start_time.elapsed().as_secs_f64() when the final chunk is published
ElapsedTimes == {0, 2}

\* let streaming_chunk = StreamingChunk { text: chunk_text, .. } of
\* process_audio_stream
TextChunk(chunk, text, final_stats) ==
    [tag |-> "Ok", text |-> text, chunk_index |-> chunk.index,
     is_final |-> chunk.is_final, start |-> chunk.start_time,
     end |-> chunk.start_time + chunk.duration, final_stats |-> final_stats]

TotalSegmentsRetrieved(total_segments, engine) ==
    total_segments + Len(engine.retrieved)

\* total_segments += num_segments as usize;
TotalSegments(total_segments, engine) == total_segments + engine.n

\* total_segments += num_segments; total_word_count += ..; final_stats;
\* if tx.send(Ok(streaming_chunk)).is_err() { break }
StreamPublish ==
    /\ tr_pc = "texts"
    /\ tr_i = tr_engine.n
    /\ tr_totals' = [tr_totals EXCEPT
                        !.segments = TotalSegments(@, tr_engine),
                        !.words = @ + WordCount(tr_text),
                        !.read = IF SendOk(tr_rx_alive)
                                 THEN @ + Len(tr_engine.read)
                                 ELSE @,
                        !.retrieved = IF SendOk(tr_rx_alive)
                                      THEN @ + Len(tr_engine.retrieved)
                                      ELSE @]
    /\ \E processing_time \in ElapsedTimes :
         LET final_stats ==
                 IF tr_chunk.is_final
                 THEN Some(TranscriptionStats(processing_time,
                                              tr_totals'.audio_duration,
                                              tr_totals'.segments,
                                              tr_totals'.words))
                 ELSE None
         IN  IF SendOk(tr_rx_alive)
             THEN /\ tr_out' = Append(tr_out,
                                      TextChunk(tr_chunk, tr_text, final_stats))
                  /\ tr_pc' = "recv"
             ELSE /\ tr_pc' = "done"
                  /\ UNCHANGED tr_out
    /\ tr_chunk' = NoChunk
    /\ tr_engine' = IF SendOk(tr_rx_alive) THEN tr_engine ELSE NoEngine
    /\ tr_text' = <<>>
    /\ tr_i' = 0
    /\ UNCHANGED <<tr_const, tr_input, tr_segments, tr_rx_alive, tr_result,
                   not_transcribe_vars>>

\* The caller drops the receiver of the result stream.
ReceiverDropped ==
    /\ tr_kind \in {"segments", "streaming"}
    /\ tr_pc # "done"
    /\ tr_rx_alive
    /\ tr_rx_alive' = FALSE
    /\ UNCHANGED <<tr_const, tr_pc, tr_input, tr_chunk, tr_engine, tr_i,
                   tr_text, tr_segments, tr_totals, tr_out, tr_result,
                   not_transcribe_vars>>

\* No decode is running: the frame function is looked at on its own.
PipelineIdle ==
    /\ mode = "none"
    /\ path_exists = TRUE
    /\ flush_result = "none"
    /\ batch_pc = "idle"
    /\ samples = <<>>
    /\ batch_result = NoResult
    /\ producer_pc = "idle"
    /\ packets_left = 0
    /\ frames_left = 0
    /\ chunk_samples = <<>>
    /\ chunk_index = 0
    /\ total_samples_processed = 0
    /\ normalized = 0
    /\ failure = "none"
    /\ send_failed = FALSE
    /\ chunk_chan = <<>>
    /\ rx_alive = TRUE
    /\ emitted = <<>>
    /\ consumer_pc = "idle"
    /\ audio_chunk = NoChunk
    /\ total_audio_duration = 0
    /\ infer_log = <<>>
    /\ out_chan = <<>>
    /\ caller_alive = TRUE
    /\ sent = <<>>
    /\ out_send_failed = FALSE
    /\ delivered = <<>>
    /\ caller_ended = FALSE

\* The frames of one decode, through the frame function of either caller.
ResamplerInit ==
    /\ PipelineIdle
    /\ DecimateIdle
    /\ OthersIdle
    /\ rs_pc = "frames"
    /\ rs_caller \in {"batch", "streaming"}
    /\ rs_left = MaxDecodedFrames
    /\ resampler = None
    /\ last_format = None
    /\ last_channel_layout = None
    /\ last_rate = None
    /\ live = 0
    /\ rs_frame = NoFrame
    /\ rs_path = "none"
    /\ rs_constructed = FALSE
    /\ rs_outcome = "none"
    /\ rs_result = "none"
    /\ rs_added = 0
    /\ last_resampled = "none"
    /\ prev_key = None
    /\ key_runs = 0
    /\ constructions = 0
    /\ clean = TRUE

ResamplerNext ==
    \/ BatchDecodedFrame
    \/ StreamDecodedFrame

ResamplerSpec == ResamplerInit /\ [][ResamplerNext]_vars

\* One mono I16 or F32 frame of any length and rate, converted directly.
DecimateInit ==
    /\ PipelineIdle
    /\ ResamplerIdle
    /\ OthersIdle
    /\ dec_pc = "start"
    /\ dec_len \in FrameLens
    /\ dec_rate \in DirectRates
    /\ dec_out = <<>>

DecimateNext == DirectConversion

DecimateSpec == DecimateInit /\ [][DecimateNext]_vars

----------------------------------------------------------------------------
\* TranscriptionStats::new on its own, for every argument looked at.
StatsInit ==
    /\ PipelineIdle
    /\ ResamplerIdle
    /\ DecimateIdle
    /\ ModelIdle
    /\ HooksIdle
    /\ TranscribeIdle
    /\ UtilitiesIdle
    /\ st_pc = "start"
    /\ st_in \in StatsInputs
    /\ st_out = NoStats

StatsNext == StatsNew

StatsSpec == StatsInit /\ [][StatsNext]_vars

\* WhisperModel on its own: every model, and every string looked at.
ModelInit ==
    /\ PipelineIdle
    /\ ResamplerIdle
    /\ DecimateIdle
    /\ StatsIdle
    /\ HooksIdle
    /\ TranscribeIdle
    /\ UtilitiesIdle
    /\ md_pc = "start"
    /\ md_in \in ModelInputs
    /\ md_out = NoModelOutput

ModelNext ==
    \/ ModelAsStr
    \/ ModelRoundTrip
    \/ ModelFilename
    \/ ModelFromStr

ModelSpec == ModelInit /\ [][ModelNext]_vars

\* The threads of one process calling install_logging_hooks.
HooksInit ==
    /\ PipelineIdle
    /\ ResamplerIdle
    /\ DecimateIdle
    /\ StatsIdle
    /\ ModelIdle
    /\ TranscribeIdle
    /\ UtilitiesIdle
    /\ hk_pc = [t \in Threads |-> NotCalling]
    /\ hk_calls = [t \in Threads |-> MaxCalls]
    /\ hk_started = <<>>
    /\ hk_returned = 0
    /\ whisper_once = "incomplete"
    /\ ggml_once = "incomplete"
    /\ whisper_hook = <<>>
    /\ ggml_hook = <<>>

HooksNext ==
    \E t \in Threads :
        \/ HookCall(t)
        \/ WhisperOnceEnter(t)
        \/ WhisperLogSet(t)
        \/ WhisperOncePass(t)
        \/ GgmlOnceEnter(t)
        \/ GgmlLogSet(t)
        \/ GgmlOncePass(t)

HooksSpec == HooksInit /\ [][HooksNext]_vars

\* One transcription: transcribe_audio_file on a path and a configuration,
\* or one of the two streaming transcribers on an AudioStream.
TranscribeInit ==
    /\ PipelineIdle
    /\ ResamplerIdle
    /\ DecimateIdle
    /\ StatsIdle
    /\ ModelIdle
    /\ HooksIdle
    /\ UtilitiesIdle
    /\ tr_kind \in {"batch", "segments", "streaming"}
    /\ tr_model_path \in BOOLEAN
    /\ tr_audio_exists \in BOOLEAN
    /\ tr_stream \in CASE tr_kind = "batch" -> {<<>>}
                       [] tr_kind = "segments" -> AudioStreams(1)
                       [] tr_kind = "streaming" -> AudioStreams(2)
    /\ tr_kind # "batch" => tr_model_path /\ tr_audio_exists
    /\ tr_pc = CASE tr_kind = "batch" -> "new"
                 [] tr_kind = "segments" -> "recv"
                 [] tr_kind = "streaming" -> "start"
    /\ tr_input = IF tr_kind = "batch" THEN <<>> ELSE tr_stream
    /\ tr_chunk = NoChunk
    /\ tr_engine = NoEngine
    /\ tr_i = 0
    /\ tr_text = <<>>
    /\ tr_segments = <<>>
    /\ tr_totals = NoTotals
    /\ tr_rx_alive = TRUE
    /\ tr_out = <<>>
    /\ tr_result = NoResult

TranscribeNext ==
    \/ TranscriberNew
    \/ LoadAudio
    \/ SyncBegin
    \/ SyncSegment
    \/ SyncFinish
    \/ SegmentsRecv
    \/ SegmentsSend
    \/ SegmentsNext
    \/ StreamStart
    \/ StreamRecv
    \/ StreamInfer
    \/ StreamSegment
    \/ StreamPublish
    \/ ReceiverDropped

TranscribeSpec == TranscribeInit /\ [][TranscribeNext]_vars

----------------------------------------------------------------------------
\* round_to_unit (math.rs)

\* The largest u8: impl_for!(u8).
U8_MAX == 255

\* The largest usize value below which every value is looked at.
MaxRoundValue == 130

\* The types round_to_unit is looked at on.
IntTypes == {"u8", "usize"}

\* Whether the build checks arithmetic overflow (debug) or wraps (release).
Builds == {"checked", "wrapping"}

\* The values looked at: every u8, and usize values whose products with the
\* bases looked at are far below usize::MAX.
RoundValues(t) ==
    IF t = "u8" THEN 0..U8_MAX
    ELSE (1..MaxRoundValue) \cup {512, 678 * 1024}

RoundBases(t) ==
    IF t = "u8" THEN {0, 1, 2, 3, 10, 16, U8_MAX}
    ELSE {2, 3, 10, 1024}

\* x is a value of type t.
Fits(t, x) == t = "usize" \/ x <= U8_MAX

\* x reduced to the range of type t, as a wrapping multiplication does.
Wrapping(t, x) == IF t = "u8" THEN x % (U8_MAX + 1) ELSE x

\* unit * base, as the build computes it when it does not panic.
UnitTimesBase == Wrapping(ru_type, ru_unit * ru_base)

\* unit * base can be computed: it fits, or the build wraps.
ProductComputed == Fits(ru_type, ru_unit * ru_base) \/ ru_build = "wrapping"

not_round_vars == <<pipeline_vars, resampler_vars, decimate_vars, stats_vars,
                    model_vars, hooks_vars, transcribe_vars, normalize_vars,
                    download_vars>>

\* let mut unit = base;
RoundStart ==
    /\ ru_pc = "start"
    /\ ru_unit' = ru_base
    /\ ru_pc' = "loop"
    /\ UNCHANGED <<ru_type, ru_build, ru_value, ru_base, ru_overflowed,
                   ru_result, not_round_vars>>

\* if self < unit { return 0 as Self; }
RoundReturnZero ==
    /\ ru_pc = "loop"
    /\ ru_value < ru_unit
    /\ ru_result' = <<0>>
    /\ ru_pc' = "done"
    /\ UNCHANGED <<ru_type, ru_build, ru_value, ru_base, ru_unit,
                   ru_overflowed, not_round_vars>>

\* unit * base overflows in a build with overflow checks: the call panics.
RoundPanic ==
    /\ ru_pc = "loop"
    /\ ru_value >= ru_unit
    /\ ~ProductComputed
    /\ ru_overflowed' = TRUE
    /\ ru_pc' = "panicked"
    /\ UNCHANGED <<ru_type, ru_build, ru_value, ru_base, ru_unit, ru_result,
                   not_round_vars>>

\* if self < unit * base { return self - (self % unit); }
RoundReturn ==
    /\ ru_pc = "loop"
    /\ ru_value >= ru_unit
    /\ ProductComputed
    /\ ru_value < UnitTimesBase
    /\ ru_overflowed' = (ru_overflowed \/ ~Fits(ru_type, ru_unit * ru_base))
    /\ ru_result' = <<ru_value - (ru_value % ru_unit)>>
    /\ ru_pc' = "done"
    /\ UNCHANGED <<ru_type, ru_build, ru_value, ru_base, ru_unit,
                   not_round_vars>>

\* unit *= base;
RoundNextUnit ==
    /\ ru_pc = "loop"
    /\ ru_value >= ru_unit
    /\ ProductComputed
    /\ ru_value >= UnitTimesBase
    /\ ru_overflowed' = (ru_overflowed \/ ~Fits(ru_type, ru_unit * ru_base))
    /\ ru_unit' = UnitTimesBase
    /\ UNCHANGED <<ru_pc, ru_type, ru_build, ru_value, ru_base, ru_result,
                   not_round_vars>>

\* One call of round_to_unit on a value and a base of one type.
RoundInit ==
    /\ PipelineIdle
    /\ ResamplerIdle
    /\ DecimateIdle
    /\ StatsIdle
    /\ ModelIdle
    /\ HooksIdle
    /\ TranscribeIdle
    /\ NormalizeIdle
    /\ DownloadIdle
    /\ ru_pc = "start"
    /\ ru_type \in IntTypes
    /\ ru_build \in Builds
    /\ ru_value \in RoundValues(ru_type)
    /\ ru_base \in RoundBases(ru_type)
    /\ ru_unit = 0
    /\ ru_overflowed = FALSE
    /\ ru_result = <<>>

RoundNext ==
    \/ RoundStart
    \/ RoundReturnZero
    \/ RoundPanic
    \/ RoundReturn
    \/ RoundNextUnit

RoundSpec == RoundInit /\ [][RoundNext]_vars

\* The loop is not suspended: a call that can take a step takes it.
RoundFairSpec == RoundSpec /\ WF_vars(RoundNext)

----------------------------------------------------------------------------
\* load_audio_sync and stream_audio_sync on the same decoded frames (audio.rs)

\* frames the decoder yields for the pair of decodes
MaxNormalizeFrames == 3

\* The frames looked at: mono and stereo, a format of the fast path and one
\* of the resampler, at both rates.
NormalizeFrames ==
    {f \in Frames : /\ f.format \in {"F32_Planar", "I32_Planar"}
                    /\ f.channels \in {1, 2}
                    /\ f.channel_layout = "NONE"}

\* sample counts the resampler may hand back for one of these frames
NormalizeCounts == {0, 80000, 160000}

\* The samples frame number no contributed, told apart from those of every
\* other frame.
FrameSamples(no, n) == Samples(no * 2 * TARGET_SAMPLES, n)

\* let mut resampler = None; let mut last_format = None; ..
NoTracking ==
    [resampler |-> None, last_format |-> None, last_channel_layout |-> None,
     last_rate |-> None]

\* let resampler_needs_update = .. on the tracking t of one decode
TrackingNeedsUpdate(t, f) ==
    \/ t.last_format # Some(f.format)
    \/ t.last_channel_layout # Some(EffectiveLayout(f))
    \/ t.last_rate # Some(f.rate)

\* process_audio_frame / process_audio_frame_to_buffer on tracking t: the
\* tracking it leaves, what it returns and how many samples it appends.
FrameOutcome(t, f, get_ok, run_ok, n) ==
    IF NeedsResampling(f)
    THEN LET construct == TrackingNeedsUpdate(t, f) \/ t.resampler = None
             made == IF construct
                     THEN [resampler |-> Some(Context(f)),
                           last_format |-> Some(f.format),
                           last_channel_layout |-> Some(EffectiveLayout(f)),
                           last_rate |-> Some(f.rate)]
                     ELSE t
         IN  IF construct /\ ~get_ok
             THEN [tracking |-> t, result |-> "Err", added |-> 0]
             ELSE IF run_ok
             THEN [tracking |-> made, result |-> "Ok", added |-> n]
             ELSE [tracking |-> NoTracking, result |-> "Ok", added |-> 0]
    ELSE [tracking |-> t, result |-> "Ok",
          added |-> Len(DirectConvert(f.samples, f.rate))]

\* Self::process_audio_frame(..)? returned Err: load_audio_sync returns it.
BatchFrameError(b) ==
    [b EXCEPT !.samples = <<>>, !.result = ErrMsg("create_resampler")]

\* load_audio_sync: one frame of either receive_frame loop.
BatchOnFrame(b, no, f, get_ok, run_ok, n) ==
    IF b.result # NoResult
    THEN b
    ELSE LET out == FrameOutcome(b.tracking, f, get_ok, run_ok, n)
         IN  IF out.result = "Err"
             THEN BatchFrameError(b)
             ELSE [b EXCEPT !.tracking = out.tracking,
                            !.samples = Extend(@, FrameSamples(no, out.added))]

\* while chunk_samples.len() >= TARGET_SAMPLES { drain; send; index += 1 },
\* the receiver being there.
RECURSIVE EmitChunks(_)
EmitChunks(s) ==
    IF VecLen(s.chunk_samples) >= TARGET_SAMPLES
    THEN EmitChunks(
             [s EXCEPT !.chunk_samples = AfterDrain(@, TARGET_SAMPLES),
                       !.emitted = Append(@,
                           AudioChunk(ChunkData(s.chunk_samples),
                                      s.chunk_index,
                                      s.total_samples_processed, FALSE)),
                       !.chunk_index = NextChunkIndex(@),
                       !.total_samples_processed = @ + TARGET_SAMPLES])
    ELSE s

\* stream_audio_sync: one frame of the packet loop (chunking) or of the flush
\* loop; if let Err(e) = .. { warn!(..); continue }
StreamOnFrame(s, no, f, get_ok, run_ok, n, chunking) ==
    LET out == FrameOutcome(s.tracking, f, get_ok, run_ok, n)
        extended == [s EXCEPT !.tracking = out.tracking,
                              !.chunk_samples =
                                  Extend(@, FrameSamples(no, out.added))]
    IN  IF out.result = "Err"
        THEN s
        ELSE IF chunking THEN EmitChunks(extended) ELSE extended

\* if samples.is_empty() { return Err(..) } .. Ok(AudioData { .. })
BatchOnEnd(b) ==
    IF b.result # NoResult
    THEN b
    ELSE IF b.samples = <<>>
    THEN [b EXCEPT !.result = ErrMsg("no_audio_data")]
    ELSE [b EXCEPT !.result = AudioData(b.samples)]

\* if !chunk_samples.is_empty() { send final } else if chunk_index == 0 { Err }
StreamOnEnd(s) ==
    IF s.chunk_samples # <<>>
    THEN [s EXCEPT !.emitted = Append(@,
                       AudioChunk(s.chunk_samples, s.chunk_index,
                                  s.total_samples_processed, TRUE)),
                   !.chunk_samples = <<>>]
    ELSE IF NoChunkWasSent(s.chunk_index)
    THEN [s EXCEPT !.emitted = Append(@, ErrMsg("no_audio_data"))]
    ELSE s

not_normalize_vars == <<pipeline_vars, resampler_vars, decimate_vars,
                        stats_vars, model_vars, hooks_vars, transcribe_vars,
                        round_vars, download_vars>>

\* The next decoded frame, handed to both decodes with the same outcomes of
\* Context::get and resampler_ctx.run.
NormalizeFrame ==
    /\ nz_pc \in {"packets", "flush"}
    /\ nz_left > 0
    /\ nz_left' = nz_left - 1
    /\ nz_no' = nz_no + 1
    /\ \E f \in NormalizeFrames, get_ok \in BOOLEAN, run_ok \in BOOLEAN,
          n \in NormalizeCounts :
         /\ nz_batch' = BatchOnFrame(nz_batch, nz_no, f, get_ok, run_ok, n)
         /\ nz_stream' = StreamOnFrame(nz_stream, nz_no, f, get_ok, run_ok, n,
                                       nz_pc = "packets")
    /\ UNCHANGED <<nz_pc, not_normalize_vars>>

\* The packets are exhausted: match decoder.send_eof(), Ok or Err in both.
NormalizeFlush ==
    /\ nz_pc = "packets"
    /\ nz_pc' \in {"flush", "final"}
    /\ UNCHANGED <<nz_left, nz_no, nz_batch, nz_stream, not_normalize_vars>>

\* receive_frame is not Ok after the flush: both decodes finish.
NormalizeFinish ==
    /\ nz_pc \in {"flush", "final"}
    /\ nz_pc' = "done"
    /\ nz_batch' = BatchOnEnd(nz_batch)
    /\ nz_stream' = StreamOnEnd(nz_stream)
    /\ UNCHANGED <<nz_left, nz_no, not_normalize_vars>>

\* One file decoded by load_audio_sync and by stream_audio_sync, the receiver
\* of the chunk channel staying connected.
NormalizeInit ==
    /\ PipelineIdle
    /\ ResamplerIdle
    /\ DecimateIdle
    /\ StatsIdle
    /\ ModelIdle
    /\ HooksIdle
    /\ TranscribeIdle
    /\ RoundIdle
    /\ DownloadIdle
    /\ nz_pc = "packets"
    /\ nz_left = MaxNormalizeFrames
    /\ nz_no = 0
    /\ nz_batch = [tracking |-> NoTracking, samples |-> <<>>,
                   result |-> NoResult]
    /\ nz_stream = [tracking |-> NoTracking, chunk_samples |-> <<>>,
                    emitted |-> <<>>, chunk_index |-> 0,
                    total_samples_processed |-> 0]

NormalizeNext ==
    \/ NormalizeFrame
    \/ NormalizeFlush
    \/ NormalizeFinish

NormalizeSpec == NormalizeInit /\ [][NormalizeNext]_vars

----------------------------------------------------------------------------
\* ModelManager::download_model_with_progress and is_model_downloaded
\* (model.rs)

\* Concurrent downloads of one model into one models directory.
NumDownloads == 2

\* Chunks the response body arrives in.
MaxChunks == 2

Downloads == 1..NumDownloads

\* The whole body: chunk k is what belongs at position k of the file.
Body == [k \in 1..MaxChunks |-> k]

not_download_vars == <<pipeline_vars, resampler_vars, decimate_vars,
                       stats_vars, model_vars, hooks_vars, transcribe_vars,
                       round_vars, normalize_vars>>

\* let temp_path = model_path.with_extension("tmp"): the same path for
\* every download of one model.
TempPath(d) == <<"tmp", 0>>

\* self.get_model_path(model)
ModelPath == <<"bin", 0>>

Paths == {ModelPath} \cup {TempPath(d) : d \in Downloads}

\* A file of n positions, each a chunk of the body or 0 where nothing was
\* written; write_all of chunk c at position pos (beyond the end the gap
\* reads as zeros).
WriteAt(content, pos, c) ==
    [k \in 1..(IF pos > Len(content) THEN pos ELSE Len(content)) |->
        IF k = pos THEN c
        ELSE IF k <= Len(content) THEN content[k] ELSE 0]

\* model_path.exists()
is_model_downloaded == dl_names[ModelPath] # 0

\* A step of download d fails and the call returns Err through `?`; the file
\* handle, if any, is dropped and the temporary file stays.
DownloadReturnsErr(d) ==
    /\ dl_pc' = [dl_pc EXCEPT ![d] = "failed"]
    /\ dl_file' = [dl_file EXCEPT ![d] = 0]

\* self.ensure_models_dir().await?; reqwest::get(&url).await ..?;
\* if !response.status().is_success() { return Err(..) }
DownloadRequest(d) ==
    /\ dl_pc[d] = "start"
    /\ \/ dl_pc' = [dl_pc EXCEPT ![d] = "create"] /\ UNCHANGED dl_file
       \/ DownloadReturnsErr(d)
    /\ UNCHANGED <<dl_downloaded, dl_names, dl_files, not_download_vars>>

\* fs::File::create(&temp_path).await ..?: creates the file, or truncates
\* the file the path names.
DownloadCreate(d) ==
    /\ dl_pc[d] = "create"
    /\ \/ /\ dl_names[TempPath(d)] = 0
          /\ dl_files' = Append(dl_files, <<>>)
          /\ dl_names' = [dl_names EXCEPT ![TempPath(d)] = Len(dl_files) + 1]
          /\ dl_file' = [dl_file EXCEPT ![d] = Len(dl_files) + 1]
          /\ dl_pc' = [dl_pc EXCEPT ![d] = "write"]
       \/ /\ dl_names[TempPath(d)] # 0
          /\ dl_files' = [dl_files EXCEPT ![dl_names[TempPath(d)]] = <<>>]
          /\ dl_file' = [dl_file EXCEPT ![d] = dl_names[TempPath(d)]]
          /\ dl_pc' = [dl_pc EXCEPT ![d] = "write"]
          /\ UNCHANGED dl_names
       \/ /\ DownloadReturnsErr(d)
          /\ UNCHANGED <<dl_names, dl_files>>
    /\ UNCHANGED <<dl_downloaded, not_download_vars>>

\* while let Some(chunk) = stream.next().await { let chunk = chunk ..?;
\*     file.write_all(&chunk).await ..?; downloaded += chunk.len() }
DownloadChunk(d) ==
    /\ dl_pc[d] = "write"
    /\ dl_downloaded[d] < MaxChunks
    /\ \/ /\ dl_files' = [dl_files EXCEPT ![dl_file[d]] =
                             WriteAt(@, dl_downloaded[d] + 1,
                                     Body[dl_downloaded[d] + 1])]
          /\ dl_downloaded' = [dl_downloaded EXCEPT ![d] = @ + 1]
          /\ UNCHANGED <<dl_pc, dl_file>>
       \/ /\ DownloadReturnsErr(d)
          /\ UNCHANGED <<dl_files, dl_downloaded>>
    /\ UNCHANGED <<dl_names, not_download_vars>>

\* file.flush().await ..?; drop(file)
DownloadFlush(d) ==
    /\ dl_pc[d] = "write"
    /\ dl_downloaded[d] = MaxChunks
    /\ \/ /\ dl_pc' = [dl_pc EXCEPT ![d] = "rename"]
          /\ dl_file' = [dl_file EXCEPT ![d] = 0]
       \/ DownloadReturnsErr(d)
    /\ UNCHANGED <<dl_downloaded, dl_names, dl_files, not_download_vars>>

\* fs::rename(&temp_path, &model_path).await ..?; Ok(model_path)
DownloadRename(d) ==
    /\ dl_pc[d] = "rename"
    /\ \/ /\ dl_names[TempPath(d)] # 0
          /\ dl_names' = [dl_names EXCEPT ![ModelPath] = dl_names[TempPath(d)],
                                          ![TempPath(d)] = 0]
          /\ dl_pc' = [dl_pc EXCEPT ![d] = "done"]
          /\ UNCHANGED dl_file
       \/ /\ DownloadReturnsErr(d)     \* the path is gone, or the rename fails
          /\ UNCHANGED dl_names
    /\ UNCHANGED <<dl_downloaded, dl_files, not_download_vars>>

\* The downloads of one model that are called on one models directory, the
\* model downloaded before or not.
DownloadInit ==
    /\ PipelineIdle
    /\ ResamplerIdle
    /\ DecimateIdle
    /\ StatsIdle
    /\ ModelIdle
    /\ HooksIdle
    /\ TranscribeIdle
    /\ RoundIdle
    /\ NormalizeIdle
    /\ dl_pc \in [Downloads -> {"start", "none"}]
    /\ dl_file = [d \in Downloads |-> 0]
    /\ dl_downloaded = [d \in Downloads |-> 0]
    /\ \E before \in BOOLEAN :
         /\ dl_files = IF before THEN <<Body>> ELSE <<>>
         /\ dl_names = [p \in Paths |->
                           IF before /\ p = ModelPath THEN 1 ELSE 0]

DownloadNext ==
    \E d \in Downloads :
        \/ DownloadRequest(d)
        \/ DownloadCreate(d)
        \/ DownloadChunk(d)
        \/ DownloadFlush(d)
        \/ DownloadRename(d)

DownloadSpec == DownloadInit /\ [][DownloadNext]_vars

----------------------------------------------------------------------------
\* Histories the properties are stated on.

IsOk(m) == m.tag = "Ok"

IsErr(m) == m.tag = "Err"

\* The AudioChunks published by the producer, in emission order.
EmittedChunks == SelectSeq(emitted, IsOk)

\* The StreamingChunks published by the consumer, in emission order.
SentChunks == SelectSeq(sent, IsOk)

\* The StreamingChunks the caller received, in order.
DeliveredChunks == SelectSeq(delivered, IsOk)

\* The samples of a sequence of chunks, concatenated in order.
RECURSIVE ConcatSamples(_)
ConcatSamples(cs) ==
    IF cs = <<>> THEN <<>>
    ELSE Extend(Head(cs).samples, ConcatSamples(Tail(cs)))

\* The length the final chunk of a stream of n samples is specified to have.
FinalLen(n) == IF n % TARGET_SAMPLES = 0 THEN TARGET_SAMPLES ELSE n % TARGET_SAMPLES

InferenceFailed(e) == e.result \in {"full_err", "n_segments_err"}

----------------------------------------------------------------------------
\* C1: on every stream that emitted at least one chunk, completed and kept
\* its receiver, exactly one emitted AudioChunk has is_final = true and it is
\* the last one emitted, also when the length is a multiple of 160000.
C1_ExactlyOneFinalChunkLast ==
    (producer_pc = "done" /\ failure = "none" /\ ~send_failed
        /\ EmittedChunks # <<>>)
    => /\ EmittedChunks[Len(EmittedChunks)].is_final
       /\ \A i \in 1..(Len(EmittedChunks) - 1) : ~EmittedChunks[i].is_final

\* C2: when the caller consumes to the end, what it received is a run of
\* Ok(StreamingChunk) items closed by a chunk carrying final_stats or by a
\* terminal Err; the sequence never ends without one of the two.
C2_SequenceEndsWithStatsOrErr ==
    caller_ended
    => /\ delivered # <<>>
       /\ \A i \in 1..(Len(delivered) - 1) : IsOk(delivered[i])
       /\ LET last == delivered[Len(delivered)]
          IN  IsErr(last) \/ last.final_stats = "Some"

\* C3: every unrecoverable failure of the producer is published as an Err on
\* the chunk channel before the producer stops, and the caller's sequence
\* then ends with an error value instead of closing silently.
C3_FatalFailurePublished ==
    /\ (producer_pc = "done" /\ failure # "none" /\ ~send_failed)
       => (emitted # <<>> /\ IsErr(emitted[Len(emitted)]))
    /\ (caller_ended /\ failure # "none" /\ ~send_failed)
       => (delivered # <<>> /\ IsErr(delivered[Len(delivered)]))

C5_ChunkLengths ==
    \A i \in 1..Len(EmittedChunks) :
        LET c == EmittedChunks[i]
        IN  /\ VecLen(c.samples) <= TARGET_SAMPLES
            /\ ~c.is_final => VecLen(c.samples) = TARGET_SAMPLES
            /\ c.is_final => VecLen(c.samples) = FinalLen(normalized)

\* C6: the indices of the emitted AudioChunks are 0,1,2,...,k in emission
\* order, none skipped and none repeated.
C6_ContiguousIndices ==
    \A i \in 1..Len(EmittedChunks) : EmittedChunks[i].index = i - 1

C6_Witness ==
    /\ Len(EmittedChunks) >= 3
    /\ EmittedChunks[Len(EmittedChunks)].is_final

\* C7: the StreamingChunks reach the caller in strictly increasing
\* chunk_index order, each index at most once, whatever the interleaving and
\* whichever chunks failed inference.
C7_DeliveredStrictlyIncreasing ==
    \A i, j \in 1..Len(DeliveredChunks) :
        i < j => DeliveredChunks[i].chunk_index < DeliveredChunks[j].chunk_index

C7_Witness ==
    /\ Len(DeliveredChunks) >= 2
    /\ DeliveredChunks[2].chunk_index > DeliveredChunks[1].chunk_index + 1
    /\ \E i \in 1..Len(infer_log) : InferenceFailed(infer_log[i])

\* C8: when the inference of chunk k fails, no StreamingChunk with index k is
\* published and no error goes to the caller for it, and the consumer goes
\* on: every chunk the producer emitted is fed to inference, and published
\* when its own inference succeeds.
C8_FailedChunkSkipped ==
    /\ \A i \in 1..Len(infer_log) :
          InferenceFailed(infer_log[i])
          => \A j \in 1..Len(SentChunks) :
                SentChunks[j].chunk_index # infer_log[i].index
    /\ \A i \in 1..Len(sent) :
          IsErr(sent[i])
          => \/ sent[i].kind = "create_state"
             \/ \E j \in 1..Len(emitted) : emitted[j] = sent[i]
    /\ (consumer_pc = "done" /\ ~out_send_failed
          /\ (\A k \in 1..Len(emitted) : IsOk(emitted[k]))
          /\ (\A k \in 1..Len(sent) : IsOk(sent[k])))
       => /\ Len(infer_log) = Len(EmittedChunks)
          /\ \A i \in 1..Len(infer_log) :
                infer_log[i].index = EmittedChunks[i].index
          /\ \A i \in 1..Len(infer_log) :
                infer_log[i].result = "ok"
                => \E j \in 1..Len(SentChunks) :
                      SentChunks[j].chunk_index = infer_log[i].index

C8_Witness ==
    /\ consumer_pc = "done"
    /\ ~out_send_failed
    /\ \E i \in 1..Len(infer_log) :
          /\ InferenceFailed(infer_log[i])
          /\ \E j \in 1..Len(SentChunks) :
                SentChunks[j].chunk_index > infer_log[i].index

\* C9: once the caller has dropped the result stream the pipeline stops: a
\* failed publish ends the consumer and releases the chunk channel, a failed
\* publish ends the producer, and a task that has stopped publishes nothing
\* more and starts no further inference.
C9_CancellationStopsPipeline ==
    /\ [](out_send_failed => (consumer_pc = "done" /\ ~rx_alive))
    /\ [](send_failed => producer_pc = "done")
    /\ [][consumer_pc = "done"
            => (consumer_pc' = "done" /\ infer_log' = infer_log /\ sent' = sent)]_vars
    /\ [][producer_pc = "done"
            => (producer_pc' = "done" /\ emitted' = emitted)]_vars
    /\ (~caller_alive ~> (producer_pc = "done" /\ consumer_pc = "done"))

C9_Witness ==
    /\ ~caller_alive
    /\ out_send_failed
    /\ send_failed
    /\ producer_pc = "done"
    /\ consumer_pc = "done"
    /\ frames_left > 0

\* C10: a StreamingChunk carries final_stats exactly when it comes from the
\* AudioChunk whose is_final is true; at most one delivered chunk carries
\* final_stats and nothing is delivered after it.
C10_FinalStatsOnlyOnFinalChunk ==
    /\ \A i \in 1..Len(DeliveredChunks) :
          LET d == DeliveredChunks[i]
          IN  (d.final_stats = "Some")
                <=> EmittedChunks[d.chunk_index + 1].is_final
    /\ \A i \in 1..Len(delivered) :
          (IsOk(delivered[i]) /\ delivered[i].final_stats = "Some")
          => i = Len(delivered)

C10_Witness ==
    /\ Len(delivered) >= 2
    /\ IsOk(delivered[Len(delivered)])
    /\ delivered[Len(delivered)].final_stats = "Some"
    /\ caller_ended

----------------------------------------------------------------------------
IsFailure(r, kind) == r.tag = "Err" /\ r.kind = kind

\* C11: at end of stream with an empty sample buffer the producer emits
\* nothing further when at least one chunk was emitted, and publishes exactly
\* one AudioProcessing error and no chunk when none was; in batch mode an
\* empty sample buffer after the flush makes the load fail with AudioProcessing.
C11_EmptyBufferAtEnd ==
    [][ /\ (producer_pc = "final" /\ chunk_samples = <<>>
              /\ producer_pc' # producer_pc)
           => IF EmittedChunks # <<>>
              THEN /\ emitted' = emitted
                   /\ failure' = "none"
                   /\ producer_pc' = "done"
              ELSE /\ failure' = "no_audio_data"
                   /\ ErrorVariant(failure') = "AudioProcessing"
                   /\ producer_pc' = "done"
                   /\ rx_alive => emitted' = <<ErrMsg("no_audio_data")>>
        /\ (batch_pc = "finish" /\ samples = <<>> /\ batch_pc' # batch_pc)
           => /\ IsFailure(batch_result', "no_audio_data")
              /\ ErrorVariant(batch_result'.kind) = "AudioProcessing"
      ]_vars

C11_Witness ==
    /\ producer_pc = "done"
    /\ flush_result # "none"
    /\ failure = "none"
    /\ ~send_failed
    /\ chunk_samples = <<>>
    /\ EmittedChunks # <<>>
    /\ ~EmittedChunks[Len(EmittedChunks)].is_final

\* C12: a non-final chunk i starts at i * 160000 / 16000 = i * 10 seconds, and
\* the final chunk starts at 10 seconds times the number of chunks before it.
C12_StartTimes ==
    \A i \in 1..Len(EmittedChunks) :
        /\ EmittedChunks[i].start_time = 10 * (i - 1)
        /\ EmittedChunks[i].start_time * SAMPLE_RATE
              = EmittedChunks[i].index * TARGET_SAMPLES

C12_Witness ==
    /\ Len(EmittedChunks) >= 3
    /\ EmittedChunks[3].is_final
    /\ EmittedChunks[3].start_time = 20

\* C18: a packet the decoder rejects never aborts the decode, whatever the
\* error: it is skipped, later packets are still decoded, and the samples of
\* the other packets make up the output, in batch and in streaming mode.
C18_RejectedPacketNeverAborts ==
    /\ failure # "send_packet"
    /\ ~IsFailure(batch_result, "send_packet")
    /\ (producer_pc = "done" /\ ~send_failed /\ failure = "none")
       => ConcatSamples(EmittedChunks) = Samples(0, normalized)
    /\ batch_result.tag = "Ok"
       => batch_result.samples = Samples(0, normalized)

C13_ConversionFailureIsSkipped ==
    [][ rs_left' # rs_left
        => /\ rs_outcome' = "run_failed"
              => /\ rs_added' = 0
                 /\ resampler' = None
                 /\ last_format' = None
                 /\ last_channel_layout' = None
                 /\ last_rate' = None
                 /\ rs_result' = "Ok"
                 /\ rs_pc' = "frames"
           /\ (last_resampled = "run_failed" /\ rs_path' = "resampler"
                 /\ rs_outcome' # "get_failed")
              => rs_constructed'
      ]_vars

C13_Witness ==
    /\ rs_caller = "batch"
    /\ rs_pc = "frames"
    /\ key_runs = 1
    /\ constructions = 2
    /\ rs_constructed
    /\ rs_outcome = "ok"

\* C14: while every frame that needs resampling is converted successfully, a
\* context is constructed exactly once per maximal run of one (format,
\* effective layout, rate): at the first frame and at each change of the
\* key, and never while the key is unchanged.
C14_OneConstructionPerKeyRun ==
    [][ (rs_left' # rs_left /\ clean')
        => /\ constructions' = key_runs'
           /\ rs_path' = "resampler"
              => (rs_constructed' <=> prev_key # Some(Context(rs_frame')))
      ]_vars

C14_Witness ==
    /\ clean
    /\ rs_left = 0
    /\ key_runs = 2
    /\ constructions = 2
    /\ rs_path = "resampler"
    /\ ~rs_constructed

\* C15: at most one resampler context is live at any time, and none is
\* before the first frame that needs resampling and right after a failed
\* conversion.
C15_AtMostOneContext ==
    /\ live <= 1
    /\ live = Len(resampler)
    /\ last_resampled = "none" => (live = 0 /\ resampler = None)
    /\ rs_outcome = "run_failed" => (live = 0 /\ resampler = None)

C15_Witness ==
    /\ live = 1
    /\ constructions = 3
    /\ key_runs = 3
    /\ resampler = Some(Context(rs_frame))

\* C16 as stated: a direct conversion at a rate R above 16000 takes the
\* samples at floor(k * R / 16000) while that index is below len, and they
\* are floor(len / (R / 16000)) in number.
C16_DecimationCountIsFloor ==
    (dec_pc = "done" /\ dec_rate # SAMPLE_RATE)
    => /\ \A k \in 1..Len(dec_out) :
             /\ dec_out[k] = ((k - 1) * dec_rate) \div SAMPLE_RATE
             /\ dec_out[k] < dec_len
       /\ Len(dec_out) = (dec_len * SAMPLE_RATE) \div dec_rate

\* C16 amended: a direct conversion at a rate R above 16000 takes the samples
\* at floor(k * R / 16000) for every k whose index is below len, and they
\* are ceil(len / (R / 16000)) in number.
C16_DecimationCountIsCeil ==
    (dec_pc = "done" /\ dec_rate # SAMPLE_RATE)
    => /\ \A k \in 1..Len(dec_out) :
             /\ dec_out[k] = ((k - 1) * dec_rate) \div SAMPLE_RATE
             /\ dec_out[k] < dec_len
       /\ (Len(dec_out) * dec_rate) \div SAMPLE_RATE >= dec_len
       /\ Len(dec_out) = (dec_len * SAMPLE_RATE + dec_rate - 1) \div dec_rate

C16_Witness ==
    /\ dec_pc = "done"
    /\ dec_rate = 32000
    /\ dec_len = 101
    /\ Len(dec_out) = 51
    /\ dec_out[51] = 100

\* C17: a frame goes through the resampler exactly when it is not a mono
\* frame of 16-bit integer or 32-bit float samples, whatever its rate.
C17_ResamplerPathIffNotMonoI16F32 ==
    rs_path # "none"
    => (rs_path = "resampler"
        <=> ~(/\ rs_frame.format \in {"I16_Packed", "I16_Planar",
                                      "F32_Packed", "F32_Planar"}
              /\ rs_frame.channels = 1))

C17_Witness ==
    /\ rs_path = "direct"
    /\ rs_frame.rate = 32000
    /\ rs_frame.channels = 1
    /\ rs_added = 2

----------------------------------------------------------------------------
\* C22: the inference calls of one streaming run never overlap: at most one
\* call is running, it is the one started last, every earlier call has
\* returned and its result was published (when it succeeded) or skipped
\* (when it failed), and only the consumer starts or ends a call.
C22_InferenceNeverOverlaps ==
    [][ /\ \A k \in 1..Len(infer_log') :
             /\ infer_log'[k].result = "running"
                => (k = Len(infer_log') /\ consumer_pc' = "infer")
             /\ (k < Len(infer_log') /\ infer_log'[k].result = "ok")
                => \E j \in 1..Len(sent') :
                      /\ IsOk(sent'[j])
                      /\ sent'[j].chunk_index = infer_log'[k].index
        /\ Len(infer_log') > Len(infer_log)
           => /\ consumer_pc = "recv"
              /\ consumer_pc' = "infer"
              /\ \A k \in 1..Len(infer_log) : infer_log[k].result # "running"
        /\ infer_log' # infer_log => consumer_pc \in {"recv", "infer"}
      ]_vars

C22_Witness ==
    /\ Len(infer_log) = 3
    /\ infer_log[1].result = "full_err"
    /\ infer_log[2].result = "ok"
    /\ infer_log[3].result = "running"
    /\ consumer_pc = "infer"

\* The whole number of chunks n samples are specified to be cut into.
CeilChunks(n) == (n + TARGET_SAMPLES - 1) \div TARGET_SAMPLES

\* A streaming run that met no failure, whose every inference call succeeded
\* and whose caller read the result stream to its end.
CleanRun ==
    /\ mode = "streaming"
    /\ caller_ended
    /\ failure = "none"
    /\ ~send_failed
    /\ ~out_send_failed
    /\ \A k \in 1..Len(infer_log) : infer_log[k].result = "ok"
    /\ \A k \in 1..Len(delivered) : IsOk(delivered[k])

\* C27: N normalized samples whose every inference call succeeds yield
\* ceil(N / 160000) StreamingChunks, the last one carrying final_stats and no
\* other; 400000 samples yield three, covering 10 s, 10 s and 5 s.
C27_ChunkCountAndFinalStats ==
    (CleanRun /\ normalized > 0)
    => /\ Len(delivered) = CeilChunks(normalized)
       /\ \A k \in 1..Len(delivered) :
             (delivered[k].final_stats = "Some") <=> (k = Len(delivered))
       /\ normalized = 400000
          => /\ Len(delivered) = 3
             /\ delivered[1].end - delivered[1].start = 10
             /\ delivered[2].end - delivered[2].start = 10
             /\ delivered[3].end - delivered[3].start = 5

----------------------------------------------------------------------------
\* C21: transcribe_audio_file called on a nonexistent audio path never
\* returns Ok, and the error it returns is AudioProcessing or Configuration,
\* whatever the model configuration.
C21_MissingAudioErrorKinds ==
    (tr_kind = "batch" /\ ~tr_audio_exists /\ tr_pc = "done") =>
        /\ tr_result.tag = "Err"
        /\ ErrorVariant(tr_result.kind) \in {"AudioProcessing", "Configuration"}

RECURSIVE ConcatTexts(_)
ConcatTexts(segs) ==
    IF segs = <<>> THEN <<>> ELSE Head(segs).text \o ConcatTexts(Tail(segs))

\* No accessor other than full_get_segment_text failed for a segment read.
OnlyTextsFailed ==
    /\ tr_engine.ran
    /\ \A k \in 1..Len(tr_engine.read) : tr_engine.read[k] \in {"none", "text"}

TextsFailed == Cardinality({k \in 1..Len(tr_engine.read) :
                               tr_engine.read[k] = "text"})

\* C24: when retrieving the text of a segment fails, only that segment is
\* skipped: every segment of the inference is still read, those whose text
\* was returned are included in order, and the whole result (batch) or the
\* chunk (streaming) is returned successfully.
C24_TextFailureSkipsOneSegment ==
    /\ (tr_kind = "batch" /\ tr_pc = "done" /\ OnlyTextsFailed) =>
          /\ tr_result.tag = "Ok"
          /\ Len(tr_engine.read) = tr_engine.n
          /\ Len(tr_result.segments) = tr_engine.n - TextsFailed
          /\ tr_result.segments =
                 [k \in 1..Len(tr_engine.retrieved) |->
                     TranscriptionSegment(tr_engine.retrieved[k])]
          /\ tr_result.text = ConcatTexts(tr_engine.retrieved)
    /\ (tr_kind = "segments" /\ OnlyTextsFailed
            /\ tr_pc \in {"recv", "send", "done"}) =>
          /\ tr_pc # "recv"
          /\ Len(tr_engine.read) = tr_engine.n
          /\ tr_pc = "send" =>
                 tr_segments = [k \in 1..Len(tr_engine.retrieved) |->
                                   TranscriptionSegment(tr_engine.retrieved[k])]
    /\ (tr_kind = "streaming" /\ tr_engine.ran /\ tr_pc # "texts") =>
          /\ Len(tr_engine.read) = tr_engine.n
          /\ tr_out # <<>>
          /\ tr_out[Len(tr_out)].tag = "Ok"
          /\ tr_out[Len(tr_out)].text = ConcatTexts(tr_engine.retrieved)

\* A batch result of one segment although the engine held two: the text of
\* the first could not be retrieved.
C24_Witness ==
    /\ tr_kind = "batch"
    /\ tr_pc = "done"
    /\ tr_engine.read = <<"text", "none">>
    /\ tr_result.tag = "Ok"
    /\ Len(tr_result.segments) = 1

\* C25: TranscriptionStats::new never divides by zero: real_time_factor is 0
\* when processing_time <= 0, words_per_minute is 0 when audio_duration <= 0,
\* and avg_segment_length is 0 when segment_count = 0.
C25_NoDivisionByZero ==
    st_pc = "done" =>
        /\ st_out.real_time_factor.kind = "finite"
        /\ st_out.avg_segment_length.kind = "finite"
        /\ st_out.words_per_minute.kind = "finite"
        /\ st_in.processing_time =< 0 => st_out.real_time_factor = Number(0)
        /\ st_in.audio_duration =< 0 => st_out.words_per_minute = Number(0)
        /\ st_in.segment_count = 0 => st_out.avg_segment_length = Number(0)

\* Every divisor is zero at once.
C25_Witness ==
    /\ st_pc = "done"
    /\ st_in.processing_time = 0
    /\ st_in.audio_duration = 0
    /\ st_in.segment_count = 0
    /\ st_in.word_count = 20
    /\ st_out.words_per_minute = Number(0)

\* x is the quotient a / b.
IsQuotient(x, a, b) ==
    x.kind = "finite" /\ x.den > 0 /\ x.num * b = a * x.den

\* C26: for positive inputs real_time_factor = audio_duration /
\* processing_time, avg_segment_length = audio_duration / segment_count and
\* words_per_minute = word_count * 60 / audio_duration; the arguments
\* (2, 10, 5, 20) give 5, 2 and 120.
C26_StatsFormulas ==
    st_pc = "done" =>
        /\ (/\ st_in.processing_time > 0
            /\ st_in.audio_duration > 0
            /\ st_in.segment_count > 0) =>
              /\ IsQuotient(st_out.real_time_factor, st_in.audio_duration,
                            st_in.processing_time)
              /\ IsQuotient(st_out.avg_segment_length, st_in.audio_duration,
                            st_in.segment_count)
              /\ IsQuotient(st_out.words_per_minute, st_in.word_count * 60,
                            st_in.audio_duration)
        /\ st_in = [processing_time |-> 2, audio_duration |-> 10,
                    segment_count |-> 5, word_count |-> 20] =>
              /\ st_out.real_time_factor = Number(5)
              /\ st_out.avg_segment_length = Number(2)
              /\ st_out.words_per_minute = Number(120)

\* The arguments whose quotients are not whole: 5 s in 2 s, one segment.
C26_Witness ==
    /\ st_pc = "done"
    /\ st_in = [processing_time |-> 2, audio_duration |-> 5,
                segment_count |-> 1, word_count |-> 20]
    /\ st_out.real_time_factor = [kind |-> "finite", num |-> 5, den |-> 2]
    /\ st_out.words_per_minute = Number(240)

RECURSIVE SumDurations(_)
SumDurations(stream) ==
    IF stream = <<>>
    THEN 0
    ELSE (IF Head(stream).tag = "Ok" THEN Head(stream).duration ELSE 0)
             + SumDurations(Tail(stream))

RECURSIVE SumSamples(_)
SumSamples(stream) ==
    IF stream = <<>>
    THEN 0
    ELSE (IF Head(stream).tag = "Ok" THEN VecLen(Head(stream).samples) ELSE 0)
             + SumSamples(Tail(stream))

RECURSIVE DeliveredWords(_)
DeliveredWords(out) ==
    IF out = <<>>
    THEN 0
    ELSE (IF Head(out).tag = "Ok" THEN WordCount(Head(out).text) ELSE 0)
             + DeliveredWords(Tail(out))

\* C28: final_stats.audio_duration is the sum of the durations of all the
\* AudioChunks of the stream, which is the total sample count divided by
\* 16000, whichever chunks failed in inference; final_stats.word_count is the
\* number of whitespace-separated words of the texts of the StreamingChunks
\* sent.
C28_FinalStatsTotals ==
    \A k \in 1..Len(tr_out) :
        (/\ tr_kind = "streaming"
         /\ tr_out[k].tag = "Ok"
         /\ tr_out[k].final_stats # None) =>
            LET stats == tr_out[k].final_stats[1]
            IN  /\ stats.audio_duration = SumDurations(tr_stream)
                /\ stats.audio_duration = SumSamples(tr_stream) \div SAMPLE_RATE
                /\ stats.word_count = DeliveredWords(SubSeq(tr_out, 1, k))

\* Three chunks of 10 s, 10 s and 5 s, the second of which failed in
\* inference: two StreamingChunks were sent, the last with the totals.
C28_Witness ==
    /\ tr_kind = "streaming"
    /\ Len(tr_stream) = 3
    /\ Len(tr_out) = 2
    /\ tr_out[1].chunk_index = 0
    /\ tr_out[2].tag = "Ok"
    /\ tr_out[2].chunk_index = 2
    /\ tr_out[2].final_stats # None
    /\ tr_out[2].final_stats[1].audio_duration = 25
    /\ tr_out[2].final_stats[1].word_count = 3

\* C29 as stated: each hook is installed exactly once, by the first call of
\* install_logging_hooks, and no later or concurrent call has an effect.
C29_FirstCallInstallsBoth ==
    /\ Len(whisper_hook) =< 1
    /\ Len(ggml_hook) =< 1
    /\ hk_returned > 0 => whisper_hook = <<1>> /\ ggml_hook = <<1>>

\* C29, amended: each hook is installed at most once, and exactly once as
\* soon as any call has returned; it is installed by a call that began before
\* any call had returned, not necessarily the first and not necessarily the
\* one that installs the other hook; a call that begins after a call has
\* returned installs nothing.
C29_EachHookInstalledOnce ==
    /\ Len(whisper_hook) =< 1
    /\ Len(ggml_hook) =< 1
    /\ whisper_once = "complete" <=> Len(whisper_hook) = 1
    /\ ggml_once = "complete" <=> Len(ggml_hook) = 1
    /\ hk_returned > 0 => Len(whisper_hook) = 1 /\ Len(ggml_hook) = 1
    /\ \A t \in DOMAIN hk_pc :
          hk_pc[t].at \in {"ggml", "ggml_log_set"} => Len(whisper_hook) = 1
    /\ \A k \in 1..Len(whisper_hook) :
          ~hk_started[whisper_hook[k]].after_return
    /\ \A k \in 1..Len(ggml_hook) : ~hk_started[ggml_hook[k]].after_return

\* Every call has returned; the second call installed the whisper hook and
\* the first the ggml hook.
C29_Witness ==
    /\ hk_returned = NumThreads * MaxCalls
    /\ whisper_hook = <<2>>
    /\ ggml_hook = <<1>>

\* C30: from_str(m.as_str()) = Ok(m) for every WhisperModel m, as_str being
\* injective over all_models; from_str of a string that is no identifier is
\* a Configuration error; m.filename() is "ggml-" + m.as_str() + ".bin".
C30_ModelRoundTrip ==
    /\ \A i, j \in 1..Len(all_models) :
          as_str(all_models[i]) = as_str(all_models[j]) => i = j
    /\ {all_models[i] : i \in 1..Len(all_models)} = WhisperModel
    /\ (md_in.tag = "model" /\ md_pc \in {"parsed", "filed"}) =>
          md_out.parsed = Ok(md_in.value)
    /\ (md_in.tag = "model" /\ md_pc = "filed") =>
          md_out.filename = "ggml-" \o as_str(md_in.value) \o ".bin"
    /\ (md_in.tag = "string" /\ md_pc = "parsed"
            /\ md_in.value \notin Identifiers) =>
          /\ md_out.parsed.tag = "Err"
          /\ ErrorVariant(md_out.parsed.kind) = "Configuration"
    /\ (md_in.tag = "string" /\ md_pc = "parsed"
            /\ md_in.value \in Identifiers) =>
          /\ md_out.parsed.tag = "Ok"
          /\ as_str(md_out.parsed.value) = md_in.value

\* A model with the longest identifier has gone the whole way.
C30_Witness ==
    /\ md_pc = "filed"
    /\ md_in.value = "LargeV3TurboQ5_0"
    /\ md_out.as_str = "large-v3-turbo-q5_0"
    /\ md_out.parsed = Ok("LargeV3TurboQ5_0")
    /\ md_out.filename = "ggml-large-v3-turbo-q5_0.bin"

----------------------------------------------------------------------------
\* round_to_unit

\* The largest power of base, from p on, that does not exceed value.
RECURSIVE LargestPower(_, _, _)
LargestPower(p, value, base) ==
    IF p * base > value THEN p ELSE LargestPower(p * base, value, base)

RoundedDown(value, base) == value - (value % LargestPower(1, value, base))

\* C31: for every value >= 1 and base >= 2, also a value smaller than base,
\* round_to_unit returns value rounded down to a multiple of the largest
\* power of base that does not exceed value.
C31_RoundsDownToLargestPower ==
    (ru_pc = "done" /\ ru_type = "usize" /\ ru_value >= 1 /\ ru_base >= 2)
        => ru_result = <<RoundedDown(ru_value, ru_base)>>

\* The same for the values that are not smaller than base.
C31_FromBaseOn ==
    (ru_pc = "done" /\ ru_type = "usize" /\ ru_value >= ru_base
        /\ ru_base >= 2)
        => ru_result = <<RoundedDown(ru_value, ru_base)>>

\* C40: on u8 no product unit * base leaves the range of the type, and every
\* call returns.
C40_TerminatesWithoutOverflow ==
    (ru_type = "u8") => ([](~ru_overflowed) /\ <>(ru_pc = "done"))

\* The two halves of C40 on their own.
C40_NoOverflow == (ru_type = "u8") => ~ru_overflowed

C40_Terminates == (ru_type = "u8") => <>(ru_pc \in {"done", "panicked"})

----------------------------------------------------------------------------
\* transcribe_audio_stream: is_final

\* The positions of the delivered StreamingChunks that are final.
FinalPositions == {i \in DOMAIN tr_out : tr_out[i].is_final}

\* C32: in transcribe_audio_stream a delivered StreamingChunk that is final
\* is the last one delivered (the last segment of the last audio chunk), so
\* at most one delivered StreamingChunk is final.
C32_FinalIsLastSegment ==
    (tr_kind = "segments")
        => /\ \A i \in FinalPositions : i = Len(tr_out)
           /\ Cardinality(FinalPositions) <= 1

\* What holds instead: a final StreamingChunk comes from a final audio chunk
\* that is the first one transcribed, and nothing but the segments of that
\* audio chunk is delivered from the first final one on.
C32_FinalOnlyInFirstTranscribed ==
    (tr_kind = "segments")
        => \A i \in FinalPositions :
               \A j \in i..Len(tr_out) :
                   /\ tr_out[j].is_final
                   /\ tr_out[j].chunk_index = tr_out[i].chunk_index

----------------------------------------------------------------------------
\* process_audio_stream: segment_count

\* C38: the segment_count of final_stats is the number of segments whose text
\* is part of the StreamingChunks delivered: a segment whose text retrieval
\* failed, and a segment of a chunk whose inference failed, is not counted.
C38_CountsContributingSegments ==
    \A k \in 1..Len(tr_out) :
        (/\ tr_kind = "streaming"
         /\ tr_out[k].tag = "Ok"
         /\ tr_out[k].final_stats # None) =>
            tr_out[k].final_stats[1].segment_count = tr_totals.retrieved

\* What holds instead: the segment_count is the number of segments the engine
\* produced for the chunks that reached publication, the segments whose text
\* retrieval failed included; the chunks whose inference failed add nothing.
C38_CountsProducedSegments ==
    \A k \in 1..Len(tr_out) :
        (/\ tr_kind = "streaming"
         /\ tr_out[k].tag = "Ok"
         /\ tr_out[k].final_stats # None) =>
            tr_out[k].final_stats[1].segment_count = tr_totals.read

\* Three chunks: the second failed in inference, the final one had two
\* segments of which one gave no text; the count reported is 3.
C38_Witness ==
    /\ tr_kind = "streaming"
    /\ Len(tr_stream) = 3
    /\ Len(tr_out) = 2
    /\ tr_out[1].chunk_index = 0
    /\ tr_out[2].tag = "Ok"
    /\ tr_out[2].chunk_index = 2
    /\ tr_out[2].final_stats # None
    /\ tr_engine.read = <<"text", "none">>
    /\ tr_totals.read = 3
    /\ tr_totals.retrieved = 2
    /\ tr_out[2].final_stats[1].segment_count = 3

----------------------------------------------------------------------------
\* Errors are terminal.

\* An Err of history h is its last message.
ErrIsLast(h) == \A i \in DOMAIN h : IsErr(h[i]) => i = Len(h)

\* C33: once the producer has published an Err on the chunk channel it
\* publishes nothing further, once the consumer has sent an Err to the caller
\* it sends nothing further, and the caller receives at most one Err.
C33_ErrIsTerminal ==
    /\ ErrIsLast(emitted)
    /\ ErrIsLast(sent)
    /\ ErrIsLast(delivered)
    /\ Len(SelectSeq(delivered, IsErr)) <= 1

\* After an Err neither task publishes again: the histories stay as they are.
C33_NothingAfterErr ==
    [][/\ (emitted # <<>> /\ IsErr(emitted[Len(emitted)]))
            => emitted' = emitted
       /\ (sent # <<>> /\ IsErr(sent[Len(sent)])) => sent' = sent]_vars

\* The producer published chunks and then an Err, the consumer sent a
\* StreamingChunk and then the Err, and the caller received both.
C33_Witness ==
    /\ Len(emitted) >= 2
    /\ IsErr(emitted[Len(emitted)])
    /\ Len(sent) >= 2
    /\ IsErr(sent[Len(sent)])
    /\ delivered = sent
    /\ producer_pc = "done"
    /\ consumer_pc = "done"

----------------------------------------------------------------------------
\* The resampler and what is remembered of the frame it was made for.

\* C35: after any sequence of frames last_format, last_channel_layout and
\* last_rate are all set or all unset, and a resampler context is present
\* exactly when they are set.
C35_TrackingConsistent ==
    /\ (last_format = None) <=> (last_channel_layout = None)
    /\ (last_format = None) <=> (last_rate = None)
    /\ (resampler = None) <=> (last_format = None)

\* A context construction failed while an earlier context was kept, after a
\* failed conversion had cleared one before.
C35_Witness ==
    /\ rs_outcome = "get_failed"
    /\ resampler # None
    /\ last_rate # None
    /\ constructions = 2
    /\ key_runs = 3

\* C36: whenever the resampler converts a frame, the context it runs was
\* constructed for that frame's format, effective channel layout and rate,
\* whatever happened to the frames before.
C36_ContextMatchesFrame ==
    [][ (rs_left' # rs_left /\ rs_path' = "resampler"
            /\ rs_outcome' # "get_failed")
        => /\ ~rs_constructed' => resampler = Some(Context(rs_frame'))
           /\ rs_outcome' = "ok" => resampler' = Some(Context(rs_frame'))
      ]_vars

\* A frame converted by the context made two frames earlier, a failed
\* construction for another kind of frame in between.
C36_Witness ==
    /\ rs_left = 0
    /\ rs_path = "resampler"
    /\ rs_outcome = "ok"
    /\ ~rs_constructed
    /\ constructions = 1
    /\ key_runs = 3
    /\ resampler = Some(Context(rs_frame))

----------------------------------------------------------------------------
\* Batch and streaming normalization of the same frames.

\* The samples of the chunks published, one after the other.
RECURSIVE ConcatChunks(_)
ConcatChunks(msgs) ==
    IF msgs = <<>>
    THEN <<>>
    ELSE Extend(IF IsOk(Head(msgs)) THEN Head(msgs).samples ELSE <<>>,
                ConcatChunks(Tail(msgs)))

\* The sample buffer load_audio_sync returned, empty when it returned Err.
BatchBuffer == IF IsOk(nz_batch.result) THEN nz_batch.result.samples ELSE <<>>

\* C37: for the same decoded frames and the same conversion outcomes the
\* sample buffer of load_audio_sync equals the concatenation of the chunks of
\* stream_audio_sync, also when a conversion or a resampler construction
\* failed.
C37_BatchEqualsStreaming ==
    (nz_pc = "done") => BatchBuffer = ConcatChunks(nz_stream.emitted)

\* The same while no resampler construction has failed in load_audio_sync.
C37_EqualUnlessConstructionFailed ==
    (nz_pc = "done" /\ nz_batch.result # ErrMsg("create_resampler"))
        => BatchBuffer = ConcatChunks(nz_stream.emitted)

----------------------------------------------------------------------------
\* download_model_with_progress is atomic on the final path.

\* The downloads that were called.
Called == {d \in Downloads : dl_pc[d] # "none"}

\* C39: the final model path names no file or a file holding the whole body,
\* whatever step of a download failed and also while two downloads of the
\* model run concurrently: is_model_downloaded is never true of a partially
\* written file.
C39_FinalPathNeverPartial ==
    (dl_names # <<>> /\ is_model_downloaded)
        => dl_files[dl_names[ModelPath]] = Body

\* The same for one download on its own.
C39_OneDownloadIsAtomic ==
    (dl_names # <<>> /\ Cardinality(Called) <= 1 /\ is_model_downloaded)
        => dl_files[dl_names[ModelPath]] = Body

\* The final path changes only in a rename of a download that wrote and
\* flushed the whole body, and a download that failed left it as it was.
C39_OnlyRenameChangesFinalPath ==
    [][ (dl_names # <<>> /\ dl_names'[ModelPath] # dl_names[ModelPath])
        => \E d \in Downloads :
               /\ dl_pc[d] = "rename"
               /\ dl_pc'[d] = "done"
               /\ dl_downloaded[d] = MaxChunks
      ]_vars

----------------------------------------------------------------------------
\* Termination of the streaming pipeline.

\* C34: whatever fails and whenever the caller drops the result stream, the
\* producer task and the consumer task return, and a caller that still holds
\* the result stream sees its end: no task waits on a channel for ever.
C34_PipelineTerminates ==
    (mode = "streaming")
        => <>[](/\ producer_pc = "done"
                /\ consumer_pc = "done"
                /\ (caller_ended \/ ~caller_alive))

\* Both tasks returned after a non-skippable packet error that reached the
\* caller, who then saw the end of the stream.
C34_Witness ==
    /\ producer_pc = "done"
    /\ consumer_pc = "done"
    /\ failure = "send_packet"
    /\ caller_alive
    /\ caller_ended
    /\ Len(delivered) >= 2
    /\ IsErr(delivered[Len(delivered)])

====
